---- MODULE Spec2Model ----
(***************************************************************************)
(* galdi: parallel filesystem scanner (galdi_core/src/fs_scan.rs), its     *)
(* batch consumer Scanner::scan and the JSONL streaming consumer           *)
(* (galdi_snapshot/src/app.rs, galdi_snapshot/src/output.rs).              *)
(*                                                                         *)
(* A run is: one file tree (fixed at Init), one option set, one walker     *)
(* thread driving a pool of workers that send Result<SnapshotEntry,        *)
(* ScanError> items over an mpsc channel, and one consumer that is either  *)
(* Scanner::scan (batch) or run_jsonl (stream).  The workers are           *)
(* interchangeable: the model keeps the entries they hold and how many of  *)
(* them wait, have left or have unwound.                                   *)
(***************************************************************************)
EXTENDS Integers, Sequences, FiniteSets, TLC

\* ---------------------------------------------------------------- bounds
MaxObjects == 2     \* objects below the scan root
MaxThreads == 2     \* largest ScanOptions.threads value explored

\* ---------------------------------------------------------------- paths
\* A path relative to the scan root is the sequence of its components; a
\* directory numbers its entries 1, 2, ... in path order.  The root itself
\* is the empty path.
Root == <<>>

Parent(p) == SubSeq(p, 1, Len(p) - 1)

\* Option<T>: None is the empty tuple, Some(x) the one-element tuple.
None == <<>>

Some(x) == <<x>>

\* std::path::Path ordering: component by component, a proper prefix first.
RECURSIVE PathLess(_, _)
PathLess(a, b) ==
    IF Len(b) = 0 THEN FALSE
    ELSE IF Len(a) = 0 THEN TRUE
    ELSE IF Head(a) # Head(b) THEN Head(a) < Head(b)
    ELSE PathLess(Tail(a), Tail(b))

PathLeq(a, b) == a = b \/ PathLess(a, b)

\* Result::Ok and Result::Err.
Ok(v) == [ok |-> TRUE, value |-> v]

Err(e) == [ok |-> FALSE, error |-> e]

\* Component::RootDir, the leading "/" of an absolute path; the names of
\* directory entries are 1, 2, ...
RootDir == 0

\* Path::is_absolute.
IsAbsolute(path) == path # <<>> /\ path[1] = RootDir

\* ScanOptions.root: the directory "/1".
RootPath == <<RootDir, 1>>

\* DirEntry::path of the object at p below root: the walker joins the names
\* it reads onto the root it was built with.
DirEntryPath(root, p) == root \o p

\* Mutant of StripPrefix: the path is handed back whole.
StripPrefix_whole(path, base) == Ok(path)

\* Path::strip_prefix: the rest of path after base, or StripPrefixError when
\* base is not a prefix of path.
StripPrefix(path, base) ==
    IF Len(base) <= Len(path) /\ SubSeq(path, 1, Len(base)) = base
    THEN Ok(SubSeq(path, Len(base) + 1, Len(path)))
    ELSE Err("prefix not found")

\* ---------------------------------------------------------------- file tree
\* kind: what fs::symlink_metadata reports.  fault: "none"; "io" (a regular
\* file that cannot be opened for hashing, a directory whose read_dir fails,
\* a symlink whose read_link fails, an object whose metadata cannot be read);
\* "panic" (an mtime that DateTime<Utc>::from(SystemTime) cannot represent, so
\* the conversion in create_entry panics).
Absent == [kind |-> "absent", fault |-> "none", content |-> 0]

RootObjects == {[kind |-> "dir", fault |-> "none", content |-> 0], Absent}

Objects ==
    {[kind |-> "dir", fault |-> "none", content |-> 0],
     [kind |-> "dir", fault |-> "io", content |-> 0],
     [kind |-> "file", fault |-> "none", content |-> 1],
     [kind |-> "file", fault |-> "io", content |-> 0],
     [kind |-> "file", fault |-> "panic", content |-> 0],
     [kind |-> "symlink", fault |-> "none", content |-> 0],
     [kind |-> "other", fault |-> "none", content |-> 0]}

\* The tree made of root object r and, below it, the objects f on the paths S.
TreeOf(r, S, f) ==
    [p \in S \cup {Root} |-> IF p = Root THEN r ELSE f[p]]

\* A tree: every object's parent is a directory that exists.
IsTree(f) ==
    \A p \in DOMAIN f \ {Root} :
        Parent(p) \in DOMAIN f /\ f[Parent(p)].kind = "dir"

NextName(S, d) == 1 + Cardinality({c \in S : Len(c) = Len(d) + 1 /\ Parent(c) = d})

\* The sets of at most n paths below the root that are closed under Parent
\* and use in every directory the names 1..k.
RECURSIVE Shapes(_)
Shapes(n) ==
    IF n = 0 THEN {{}}
    ELSE Shapes(n - 1) \cup
         UNION {{S \cup {Append(d, NextName(S, d))} : d \in S \cup {Root}} :
                   S \in {T \in Shapes(n - 1) : Cardinality(T) = n - 1}}

Children(f, p) ==
    {c \in DOMAIN f : Len(c) = Len(p) + 1 /\ Parent(c) = p}

\* An exclude pattern: a glob anchored at the scan root that names one
\* path, or a string that is not a glob (OverrideBuilder::add returns Err).
Glob(path) == [valid |-> TRUE, path |-> path]

InvalidGlob == [valid |-> FALSE, path |-> <<>>]

\* Override::matched for the "!pattern" globs scan_iter builds: Ignore when
\* some pattern matches the path.
Excluded(patterns, p) == \E g \in patterns : g.valid /\ g.path = p

\* Mutant of Kept: the overrides are not consulted.
Kept_all(patterns, cs) == cs

\* The entries of a directory the walker keeps: those no pattern excludes.
Kept(patterns, cs) == {c \in cs : ~Excluded(patterns, c)}

ChecksumAlgorithms == {"xxh3_64", "sha256"}

VARIABLES
    fs,             \* the file tree: path -> object
    threads,        \* ScanOptions.threads
    mode,           \* "batch" (run_json / Scanner::scan) or "stream" (run_jsonl)
    checksum_algorithm,  \* ScanOptions.checksum_algorithm
    exclude_patterns,    \* ScanOptions.exclude_patterns
    walker,         \* the galdi-walker thread: "unspawned", "start", "pool", "joined", "done"
    pool,           \* directory entries queued for the workers
    active,         \* the entries workers hold: [path, phase], phase "visit" or "descend"
    exited,         \* number of workers that left their loop
    panicked,       \* number of workers that unwound
    quit_now,       \* WalkState::Quit was returned by some visitor
    chan,           \* the mpsc channel (tx -> rx)
    rx_alive,       \* the Receiver (ScanIterator) has not been dropped
    pc,             \* the consumer's position
    entries,        \* Scanner::scan: entries
    errors,         \* Scanner::scan: errors
    snapshot,       \* the value Scanner::scan returned (None before)
    writer,         \* StreamingOutput.writer: the lines written
    total_entries,  \* StreamingOutput.total_entries
    error_count,    \* StreamingOutput.error_count
    exit_code,      \* RunResult.exit_code (None before the run returns)
    source,         \* DiffEngine::diff: source.entries
    target,         \* DiffEngine::diff: target.entries
    diff_options,   \* DiffOptions
    diff_result,    \* the DiffResult DiffEngine::diff returned (None before)
    plumbah_info,   \* ToolArgs.plumbah_info
    inputs,         \* galdi_diff: what args.source and args.target name (None for galdi_snapshot)
    output,         \* RunResult.output of run: the envelope serialised (None before)
    failure,        \* an ignore::Error or io::Error converted into a ScanError (None when there is none)
    scan_error,     \* a ScanError handed to to_plumbah_error (None when there is none)
    plumbah_error,  \* the PlumbahError it returned (None before)
    algorithm_name, \* a string handed to ChecksumAlgorithm::from_str (None when there is none)
    parsed          \* the Result it returned (None before)

vars == <<fs, threads, mode, checksum_algorithm, exclude_patterns, walker, pool, active, exited,
          panicked, quit_now, chan, rx_alive, pc, entries, errors, snapshot,
          writer, total_entries, error_count, exit_code,
          source, target, diff_options, diff_result, plumbah_info, inputs, output,
          failure, scan_error, plumbah_error, algorithm_name, parsed>>

diffVars == <<source, target, diff_options, diff_result>>

runVars == <<plumbah_info, inputs, output>>

errVars == <<failure, scan_error, plumbah_error>>

parseVars == <<algorithm_name, parsed>>

walkVars == <<walker, pool, active, exited, panicked, quit_now>>

consVars == <<pc, entries, errors, snapshot, writer, total_entries, error_count, exit_code>>

optVars == <<fs, threads, mode, checksum_algorithm, exclude_patterns>>

\* ---------------------------------------------------------------- entries
\* GaldiHasher::hash_file: "<algorithm>:<digest of the content>".
Digest(alg, content) ==
    IF alg = "xxh3_64" THEN (content * 7 + 3) % 16 ELSE (content * 5 + 1) % 16

\* Mutant of GetHasher: the XXH3 hasher whatever the algorithm.
GetHasher_alwaysXxh3(alg) == "XXH3_64Hasher"

\* checksum::get_hasher.
GetHasher(alg) ==
    CASE alg = "xxh3_64" -> "XXH3_64Hasher"
      [] alg = "sha256"  -> "Sha256Hasher"
      [] alg = "blake3"  -> "Blake3Hasher"

\* The prefix each hasher formats its digest with.
HasherPrefix(hasher) ==
    CASE hasher = "XXH3_64Hasher" -> "xxh3_64"
      [] hasher = "Sha256Hasher"  -> "sha256"
      [] hasher = "Blake3Hasher"  -> "blake3"

\* ScannerRef::compute_checksum: get_hasher(self.checksum_algorithm).hash_file(path).
HashFile(alg, content) == <<HasherPrefix(GetHasher(alg)), Digest(alg, content)>>

\* ScanError::Io(error) with its message.
IoError(msg) == [kind |-> "Io", msg |-> msg]

\* ScanError::PathNotFound(path), ::PermissionDenied(path), ::SymlinkLoop(path).
PathError(kind, path) == [kind |-> kind, path |-> path]

\* The classification of create_entry: is_dir, is_symlink, is_file, else Undefined.
EntryTypeOf(kind) ==
    IF kind = "dir" THEN "Directory"
    ELSE IF kind = "symlink" THEN "Symlink"
    ELSE IF kind = "file" THEN "File"
    ELSE "Undefined"

\* Mutant of CreateEntry: the checksum is computed for everything that is not
\* a directory, and the target is read whenever the path is not a file.
CreateEntry_uncoupled(alg, p, o) ==
    LET entry_type == EntryTypeOf(o.kind)
    IN  IF o.fault = "io" /\ o.kind # "dir"
        THEN [tag |-> "Err", error |-> IoError("metadata")]
        ELSE IF o.fault = "panic"
        THEN [tag |-> "Panic"]
        ELSE [tag |-> "Ok",
              entry |-> [path |-> p,
                         entry_type |-> entry_type,
                         checksum |-> IF entry_type # "Directory"
                                      THEN Some(HashFile(alg, o.content))
                                      ELSE None,
                         target |-> IF entry_type = "Symlink"
                                    THEN Some("target")
                                    ELSE None]]

\* ScannerRef::create_entry on a DirEntry with the given path, for the
\* object o, by a ScannerRef with the given root.  The result is an Ok item,
\* an Err item, or Panic (the closure unwinds and nothing is sent).
CreateEntryAt(alg, root, path, o) ==
    LET entry_type == EntryTypeOf(o.kind)
        relative_path == StripPrefix(path, root)
    IN  IF o.kind = "other" /\ o.fault = "io"
        THEN [tag |-> "Err", error |-> IoError("metadata")]
        ELSE IF ~relative_path.ok
        THEN [tag |-> "Err", error |-> IoError(relative_path.error)]
        ELSE IF entry_type = "File" /\ o.fault = "io"
        THEN [tag |-> "Err", error |-> IoError("hash_file")]
        ELSE IF o.fault = "panic"
        THEN [tag |-> "Panic"]
        ELSE IF entry_type = "Symlink" /\ o.fault = "io"
        THEN [tag |-> "Err", error |-> IoError("read_link")]
        ELSE [tag |-> "Ok",
              entry |-> [path |-> relative_path.value,
                         entry_type |-> entry_type,
                         checksum |-> IF entry_type = "File"
                                      THEN Some(HashFile(alg, o.content))
                                      ELSE None,
                         target |-> IF entry_type = "Symlink"
                                    THEN Some("target")
                                    ELSE None]]

\* create_entry on the object o the walker found at p below the scan root.
CreateEntry(alg, p, o) == CreateEntryAt(alg, RootPath, DirEntryPath(RootPath, p), o)

\* The visitor closure of scan_iter on one walker result: Ok(entry) goes
\* through create_entry, Err(err) through ScanError::from(ignore::Error).
VisitResult(alg, p, o) ==
    IF o = Absent
    THEN [tag |-> "Err", error |-> IoError("walk")]
    ELSE CreateEntry(alg, p, o)

\* entries.sort_by(|a, b| a.path.cmp(&b.path)): a stable sort by path.
RECURSIVE InsertByPath(_, _)
InsertByPath(e, s) ==
    IF s = <<>> THEN <<e>>
    ELSE IF PathLess(e.path, Head(s).path) THEN <<e>> \o s
    ELSE <<Head(s)>> \o InsertByPath(e, Tail(s))

\* Mutant of SortByPath: the sort is skipped, entries stay in arrival order.
SortByPath_skipped(s) == s

RECURSIVE SortByPath(_)
SortByPath(s) ==
    IF s = <<>> THEN <<>>
    ELSE InsertByPath(s[Len(s)], SortByPath(SubSeq(s, 1, Len(s) - 1)))

\* ---------------------------------------------------------------- Init
\* The trees with at most n objects below the root.
Trees(n) ==
    UNION {{TreeOf(r, S, f) : f \in [S -> Objects]} : r \in RootObjects, S \in Shapes(n)}

InitRun ==
    /\ walker = "unspawned"
    /\ pool = {}
    /\ active = {}
    /\ exited = 0
    /\ panicked = 0
    /\ quit_now = FALSE
    /\ chan = <<>>
    /\ rx_alive = TRUE
    /\ pc = "start"
    /\ entries = <<>>
    /\ errors = <<>>
    /\ snapshot = None
    /\ writer = <<>>
    /\ total_entries = 0
    /\ error_count = 0
    /\ exit_code = None
    /\ output = None
    /\ plumbah_error = None

\* A run without --plumbah-info.
NoInfo ==
    /\ plumbah_info = FALSE
    /\ inputs = None

\* No ScanError is converted outside a scan.
NoConversion ==
    /\ failure = None
    /\ scan_error = None

\* No algorithm name is parsed: ScanOptions already holds a ChecksumAlgorithm.
NoParse ==
    /\ algorithm_name = None
    /\ parsed = None

\* DiffOptions of a plain `galdi_diff SOURCE TARGET`.
DefaultDiffOptions == [ignore_time |-> FALSE, ignore_mode |-> FALSE, structure_only |-> FALSE]

\* No diff is under way (the snapshot tool).
NoDiff ==
    /\ source = <<>>
    /\ target = <<>>
    /\ diff_options = DefaultDiffOptions
    /\ diff_result = None

Init ==
    /\ NoDiff
    /\ NoInfo
    /\ NoConversion
    /\ NoParse
    /\ fs \in {f \in Trees(MaxObjects) : IsTree(f)}
    /\ threads \in 1..MaxThreads
    /\ mode \in {"batch", "stream"}
    /\ checksum_algorithm \in ChecksumAlgorithms
    /\ exclude_patterns = {}
    /\ InitRun

\* ---------------------------------------------------------------- channel
\* mpsc::Sender::send: Ok while the Receiver lives, Err once it was dropped.
SendOk == rx_alive

\* Mutant of AllSendersDropped: a Sender is kept outside the walker thread (in
\* the ScanIterator), so the channel can never be seen as closed.
AllSendersDropped_senderKept == FALSE

\* Every Sender (tx, tx_panic and the workers' clones) lives inside the
\* walker thread's closure and is dropped when that thread ends.
AllSendersDropped == walker = "done"

\* Mutant of VisitorSend: the result of send is ignored and the visitor
\* always returns Continue.
VisitorSend_alwaysContinue(item) ==
    /\ chan' = IF SendOk THEN Append(chan, item) ELSE chan
    /\ quit_now' = quit_now

\* The visitor's `tx.send(item)` and the WalkState it returns: Continue after a
\* successful send, Quit (which sets quit_now) after a failed one.
VisitorSend(item) ==
    IF SendOk
    THEN /\ chan' = Append(chan, item)
         /\ quit_now' = quit_now
    ELSE /\ chan' = chan
         /\ quit_now' = TRUE

Op(p, phase) == [path |-> p, phase |-> phase]

\* The workers that wait for a directory entry.
Idle ==
    IF walker = "pool" THEN threads - Cardinality(active) - exited - panicked ELSE 0

\* ---------------------------------------------------------------- walker
\* WalkParallel::run, before the workers start: a root that cannot be
\* stat'ed is handed to the visitor as Err on the walker thread and no worker
\* is started; otherwise the root is the first work item of `threads` workers.
WalkerStart ==
    /\ walker = "start"
    /\ IF fs[Root] = Absent
       THEN /\ VisitorSend(VisitResult(checksum_algorithm, Root, fs[Root]))
            /\ walker' = "joined"
            /\ UNCHANGED pool
       ELSE /\ pool' = {Root}
            /\ walker' = "pool"
            /\ UNCHANGED <<chan, quit_now>>
    /\ UNCHANGED <<active, exited, panicked, rx_alive>>
    /\ UNCHANGED optVars
    /\ UNCHANGED diffVars
    /\ UNCHANGED runVars
    /\ UNCHANGED errVars
    /\ UNCHANGED parseVars
    /\ UNCHANGED consVars

\* A waiting worker pops the directory entry p; none is handed out once
\* quit_now is set.
WorkerTake(p) ==
    /\ walker = "pool"
    /\ Idle > 0
    /\ ~quit_now
    /\ p \in pool
    /\ pool' = pool \ {p}
    /\ active' = active \cup {Op(p, "visit")}
    /\ UNCHANGED <<walker, exited, panicked, quit_now, chan, rx_alive>>
    /\ UNCHANGED optVars
    /\ UNCHANGED diffVars
    /\ UNCHANGED runVars
    /\ UNCHANGED errVars
    /\ UNCHANGED parseVars
    /\ UNCHANGED consVars

\* The worker that holds p calls the visitor closure on it: create_entry,
\* then send.  A panic in create_entry unwinds the worker.  After Continue on
\* a directory the worker goes on to read it.
WorkerVisit(p) ==
    /\ walker = "pool"
    /\ Op(p, "visit") \in active
    /\ LET r == VisitResult(checksum_algorithm, p, fs[p])
       IN  IF r.tag = "Panic"
           THEN /\ active' = active \ {Op(p, "visit")}
                /\ panicked' = panicked + 1
                /\ UNCHANGED <<chan, quit_now>>
           ELSE /\ VisitorSend(r)
                /\ active' = (active \ {Op(p, "visit")}) \cup
                       (IF SendOk /\ fs[p].kind = "dir" THEN {Op(p, "descend")} ELSE {})
                /\ UNCHANGED panicked
    /\ UNCHANGED <<walker, pool, exited, rx_alive>>
    /\ UNCHANGED optVars
    /\ UNCHANGED diffVars
    /\ UNCHANGED runVars
    /\ UNCHANGED errVars
    /\ UNCHANGED parseVars
    /\ UNCHANGED consVars

\* The worker reads the directory p it just visited: a read_dir failure is
\* handed to the visitor as Err, otherwise every child becomes a work item.
WorkerDescend(p) ==
    /\ walker = "pool"
    /\ Op(p, "descend") \in active
    /\ IF fs[p].fault = "io"
       THEN /\ VisitorSend([tag |-> "Err", error |-> IoError("walk")])
            /\ UNCHANGED pool
       ELSE /\ pool' = pool \cup Kept(exclude_patterns, Children(fs, p))
            /\ UNCHANGED <<chan, quit_now>>
    /\ active' = active \ {Op(p, "descend")}
    /\ UNCHANGED <<walker, exited, panicked, rx_alive>>
    /\ UNCHANGED optVars
    /\ UNCHANGED diffVars
    /\ UNCHANGED runVars
    /\ UNCHANGED errVars
    /\ UNCHANGED parseVars
    /\ UNCHANGED consVars

\* A waiting worker leaves its loop: on quit_now, or when no work is queued
\* and no worker holds any.
WorkerExit ==
    /\ walker = "pool"
    /\ Idle > 0
    /\ \/ quit_now
       \/ /\ pool = {}
          /\ active = {}
          /\ panicked = 0
    /\ exited' = exited + 1
    /\ UNCHANGED <<walker, pool, active, panicked, quit_now, chan, rx_alive>>
    /\ UNCHANGED optVars
    /\ UNCHANGED diffVars
    /\ UNCHANGED runVars
    /\ UNCHANGED errVars
    /\ UNCHANGED parseVars
    /\ UNCHANGED consVars

\* The same when a sibling has unwound.  Whether the pool's termination
\* detection still fires then is decided inside WalkParallel::run, so this
\* step may or may not ever be taken.
WorkerExitAfterFault ==
    /\ walker = "pool"
    /\ Idle > 0
    /\ ~quit_now
    /\ pool = {}
    /\ active = {}
    /\ panicked > 0
    /\ exited' = exited + 1
    /\ UNCHANGED <<walker, pool, active, panicked, quit_now, chan, rx_alive>>
    /\ UNCHANGED optVars
    /\ UNCHANGED diffVars
    /\ UNCHANGED runVars
    /\ UNCHANGED errVars
    /\ UNCHANGED parseVars
    /\ UNCHANGED consVars

\* The message the walker thread sends after catch_unwind returned Err.
WalkerPanicItem == [tag |-> "Err", error |-> IoError("filesystem walker panicked")]

\* Every worker thread has ended, or none was started.
WorkersJoined ==
    \/ walker = "joined"
    \/ walker = "pool" /\ exited + panicked = threads

\* Mutant of WalkerFinish: the unwinding is swallowed, no item reports it.
WalkerFinish_panicSwallowed ==
    /\ WorkersJoined
    /\ walker' = "done"
    /\ UNCHANGED <<pool, active, exited, panicked, quit_now, chan, rx_alive>>
    /\ UNCHANGED optVars
    /\ UNCHANGED diffVars
    /\ UNCHANGED runVars
    /\ UNCHANGED errVars
    /\ UNCHANGED parseVars
    /\ UNCHANGED consVars

\* walker.run returns or unwinds once every worker thread has ended (the
\* workers are joined); catch_unwind turns the unwinding into one Err item
\* sent through tx_panic (`let _ =`: a failed send is ignored), and the
\* thread ends, dropping every Sender.
WalkerFinish ==
    /\ WorkersJoined
    /\ chan' = IF panicked > 0 /\ SendOk THEN Append(chan, WalkerPanicItem) ELSE chan
    /\ walker' = "done"
    /\ UNCHANGED <<pool, active, exited, panicked, quit_now, rx_alive>>
    /\ UNCHANGED optVars
    /\ UNCHANGED diffVars
    /\ UNCHANGED runVars
    /\ UNCHANGED errVars
    /\ UNCHANGED parseVars
    /\ UNCHANGED consVars

\* ---------------------------------------------------------------- consumer
\* Mutant of ScanIter: the scan starts under --plumbah-info as well.
ScanIter_ignoresInfo ==
    /\ \/ mode = "batch" /\ pc = "start"
       \/ mode = "stream" /\ pc = "iter"
    /\ walker = "unspawned"
    /\ walker' = "start"
    /\ pc' = "loop"
    /\ UNCHANGED <<pool, active, exited, panicked, quit_now, chan, rx_alive>>
    /\ UNCHANGED <<entries, errors, snapshot, writer, total_entries, error_count, exit_code>>
    /\ UNCHANGED optVars
    /\ UNCHANGED diffVars
    /\ UNCHANGED runVars
    /\ UNCHANGED errVars
    /\ UNCHANGED parseVars

\* Scanner::scan_iter: build the walker, create the channel, spawn the
\* galdi-walker thread, return the ScanIterator.  run_json reaches it through
\* Scanner::scan at once, run_jsonl after write_head succeeded; run reaches
\* neither under --plumbah-info.
ScanIter ==
    /\ \/ mode = "batch" /\ pc = "start" /\ ~plumbah_info
       \/ mode = "stream" /\ pc = "iter"
    /\ walker = "unspawned"
    /\ IF \E g \in exclude_patterns : ~g.valid
       THEN /\ pc' = "panicked"
            /\ UNCHANGED walker
       ELSE /\ walker' = "start"
            /\ pc' = "loop"
    /\ UNCHANGED <<pool, active, exited, panicked, quit_now, chan, rx_alive>>
    /\ UNCHANGED <<entries, errors, snapshot, writer, total_entries, error_count, exit_code>>
    /\ UNCHANGED optVars
    /\ UNCHANGED diffVars
    /\ UNCHANGED runVars
    /\ UNCHANGED errVars
    /\ UNCHANGED parseVars

\* Meta::new("galdi_snapshot", .., true, false, true, false, ..) as Scanner::scan calls it.
ScanMeta ==
    [tool |-> "galdi_snapshot", idempotent |-> TRUE, mutates |-> FALSE,
     safe |-> TRUE, deterministic |-> FALSE]

\* PlumbahObject::new(status, meta).
PlumbahObjectNew(status, meta) ==
    [version |-> "1.0", stream |-> None, status |-> status, meta |-> Some(meta),
     errors |-> None, summary |-> None, execution_time_ms |-> None]

\* Mutant of ScanResult: count is taken over every item received, errors included.
ScanResult_countsItems(alg, es, errs) ==
    LET sorted == SortByPath(es)
        status == IF errs = <<>> THEN "Ok" ELSE "Partial"
    IN  [version |-> "1.0",
         checksum_algorithm |-> alg,
         plumbah |-> PlumbahObjectNew(status, ScanMeta),
         count |-> Len(es) + Len(errs),
         entries |-> sorted]

\* The tail of Scanner::scan: sort, choose the status, build the Snapshot.
ScanResult(alg, es, errs) ==
    LET sorted == SortByPath(es)
        status == IF errs = <<>> THEN "Ok" ELSE "Partial"
    IN  [version |-> "1.0",
         checksum_algorithm |-> alg,
         plumbah |-> PlumbahObjectNew(status, ScanMeta),
         count |-> Len(sorted),
         entries |-> sorted]

\* run_json: the exit code of an Envelope::Snapshot.
RunJsonExitCode(snap) == IF snap.plumbah.meta # None THEN 0 ELSE 1

\* Mutant of ScanItem: an Err item is propagated (`item?`), scan returns Err
\* and no snapshot.
ScanItem_abortsOnError ==
    /\ mode = "batch"
    /\ pc = "loop"
    /\ chan # <<>>
    /\ LET item == Head(chan)
       IN  IF item.tag = "Ok"
           THEN /\ entries' = Append(entries, item.entry)
                /\ chan' = Tail(chan)
                /\ UNCHANGED <<errors, pc, exit_code, rx_alive>>
           ELSE /\ errors' = Append(errors, item.error)
                /\ pc' = "done"
                /\ exit_code' = Some(1)
                /\ rx_alive' = FALSE
                /\ chan' = <<>>
                /\ UNCHANGED entries
    /\ UNCHANGED <<snapshot, writer, total_entries, error_count>>
    /\ UNCHANGED walkVars
    /\ UNCHANGED optVars
    /\ UNCHANGED diffVars
    /\ UNCHANGED runVars
    /\ UNCHANGED errVars
    /\ UNCHANGED parseVars

\* Scanner::scan, one turn of `for item in iter` that received an item.
ScanItem ==
    /\ mode = "batch"
    /\ pc = "loop"
    /\ chan # <<>>
    /\ LET item == Head(chan)
       IN  IF item.tag = "Ok"
           THEN /\ entries' = Append(entries, item.entry)
                /\ UNCHANGED errors
           ELSE /\ errors' = Append(errors, item.error)
                /\ UNCHANGED entries
    /\ chan' = Tail(chan)
    /\ UNCHANGED <<pc, snapshot, writer, total_entries, error_count, exit_code>>
    /\ UNCHANGED rx_alive
    /\ UNCHANGED walkVars
    /\ UNCHANGED optVars
    /\ UNCHANGED diffVars
    /\ UNCHANGED runVars
    /\ UNCHANGED errVars
    /\ UNCHANGED parseVars

\* Scanner::scan, recv() returned Err (channel empty, every Sender dropped):
\* the loop ends, the iterator is dropped, the snapshot is built and run_json
\* derives the exit code.
ScanReturn ==
    /\ mode = "batch"
    /\ pc = "loop"
    /\ chan = <<>>
    /\ AllSendersDropped
    /\ LET snap == ScanResult(checksum_algorithm, entries, errors)
       IN  /\ snapshot' = Some(snap)
           /\ exit_code' = Some(RunJsonExitCode(snap))
    /\ rx_alive' = FALSE
    /\ pc' = "done"
    /\ UNCHANGED <<entries, errors, writer, total_entries, error_count>>
    /\ UNCHANGED chan
    /\ UNCHANGED walkVars
    /\ UNCHANGED optVars
    /\ UNCHANGED diffVars
    /\ UNCHANGED runVars
    /\ UNCHANGED errVars
    /\ UNCHANGED parseVars

\* ---------------------------------------------------------------- streaming
\* One `writeln!(..)?; flush()?` pair on the writer: "ok"; "write_err"
\* (writeln! failed, the line is not in the output); "flush_err" (the line
\* was written, flush failed).
WriteOutcomes == {"ok", "write_err", "flush_err"}

Written(w, line, outcome) == IF outcome = "write_err" THEN w ELSE Append(w, line)

\* The head line of write_head: the envelope with the Meta built there, then
\* version, root and checksum_algorithm.
HeadLine(root, alg, deterministic) ==
    [line |-> "head",
     plumbah |-> [version |-> "1.0", stream |-> Some("head"), status |-> "Ok",
                  meta |-> Some([idempotent |-> TRUE, mutates |-> FALSE, safe |-> TRUE,
                                 deterministic |-> deterministic,
                                 plumbah_level |-> 2, execution_time_ms |-> 0,
                                 tool |-> "galdi_snapshot",
                                 tool_version |-> "CARGO_PKG_VERSION",
                                 timestamp |-> "now",
                                 profiles |-> Some(<<"streaming">>)]),
                  errors |-> None, summary |-> None, execution_time_ms |-> None],
     version |-> "1.0",
     root |-> root,
     checksum_algorithm |-> alg]

EntryLine(entry) == [line |-> "entry", entry |-> entry]

\* Mutant of ToPlumbahError: the generic I/O error is marked recoverable.
ToPlumbahError_recoverableIo(err) ==
    [code |-> IF err.kind = "PathNotFound" THEN "PATH_NOT_FOUND"
              ELSE IF err.kind = "PermissionDenied" THEN "PERMISSION_DENIED"
              ELSE IF err.kind = "Io" THEN "IO_ERROR"
              ELSE "SYMLINK_LOOP",
     message |-> IF err.kind = "Io" THEN <<err.msg>> ELSE <<err.kind, err.path>>,
     path |-> IF err.kind = "Io" THEN None ELSE Some(err.path),
     recoverable |-> err.kind = "Io",
     context |-> None]

\* ScanError::to_plumbah_error: the message is the error's own for Io and a
\* text with the path for the other kinds.
ToPlumbahError(err) ==
    [code |-> IF err.kind = "PathNotFound" THEN "PATH_NOT_FOUND"
              ELSE IF err.kind = "PermissionDenied" THEN "PERMISSION_DENIED"
              ELSE IF err.kind = "Io" THEN "IO_ERROR"
              ELSE "SYMLINK_LOOP",
     message |-> IF err.kind = "Io" THEN <<err.msg>> ELSE <<err.kind, err.path>>,
     path |-> IF err.kind = "Io" THEN None ELSE Some(err.path),
     recoverable |-> FALSE,
     context |-> None]

\* Mutant of ErrorLine: the error line also carries a data field, the path.
ErrorLine_withPath(perr) ==
    [line |-> "error", plumbah |-> [errors |-> <<perr>>], path |-> perr.message]

\* The line of write_error: json!({"$plumbah": {"errors": [error]}}).
ErrorLine(perr) == [line |-> "error", plumbah |-> [errors |-> <<perr>>]]

\* Mutant of TailLine: summary.errors is filled from the entry counter.
TailLine_errorsFromTotal(total, errs) ==
    [line |-> "tail",
     plumbah |-> [version |-> "1.0", stream |-> Some("tail"),
                  status |-> IF errs > 0 THEN "Partial" ELSE "Ok",
                  meta |-> None, errors |-> None,
                  summary |-> Some([total |-> total, processed |-> total, errors |-> total]),
                  execution_time_ms |-> Some(0)]]

\* Mutant of TailLine: the tail repeats the metadata of the head.
TailLine_withMeta(total, errs) ==
    [line |-> "tail",
     plumbah |-> [version |-> "1.0", stream |-> Some("tail"),
                  status |-> IF errs > 0 THEN "Partial" ELSE "Ok",
                  meta |-> Some([tool |-> "galdi_snapshot"]), errors |-> None,
                  summary |-> Some([total |-> total, processed |-> total, errors |-> errs]),
                  execution_time_ms |-> Some(0)]]

\* The line of write_tail.
TailLine(total, errs) ==
    [line |-> "tail",
     plumbah |-> [version |-> "1.0", stream |-> Some("tail"),
                  status |-> IF errs > 0 THEN "Partial" ELSE "Ok",
                  meta |-> None, errors |-> None,
                  summary |-> Some([total |-> total, processed |-> total, errors |-> errs]),
                  execution_time_ms |-> Some(0)]]

\* Mutant of StreamExitCode: the batch rule, 2 for a Partial tail.
StreamExitCode_fromStatus == IF error_count > 0 THEN 2 ELSE 0

\* StreamingOutput::exit_code.
StreamExitCode == 0

\* `?` in run_jsonl: the function returns Err, the ScanIterator (if any) is
\* dropped with what the channel still holds, and main exits with 1.
RunJsonlFail ==
    /\ pc' = "failed"
    /\ exit_code' = Some(1)
    /\ rx_alive' = FALSE
    /\ chan' = <<>>

\* run_jsonl: StreamingOutput::new and write_head.
WriteHead ==
    /\ mode = "stream"
    /\ pc = "start"
    /\ ~plumbah_info
    /\ \E outcome \in WriteOutcomes :
          /\ writer' = Written(writer, HeadLine(RootPath, checksum_algorithm, FALSE), outcome)
          /\ IF outcome = "ok"
             THEN /\ pc' = "iter"
                  /\ UNCHANGED <<exit_code, rx_alive, chan>>
             ELSE RunJsonlFail
    /\ UNCHANGED <<entries, errors, snapshot, total_entries, error_count>>
    /\ UNCHANGED walkVars
    /\ UNCHANGED optVars
    /\ UNCHANGED diffVars
    /\ UNCHANGED runVars
    /\ UNCHANGED errVars
    /\ UNCHANGED parseVars

\* Mutant of StreamItem: the first Err item ends the loop (`break` after
\* write_error), the rest of the channel is dropped.
StreamItem_stopsOnError ==
    /\ mode = "stream"
    /\ pc = "loop"
    /\ chan # <<>>
    /\ LET item == Head(chan)
       IN  \E outcome \in WriteOutcomes :
              /\ writer' = Written(writer,
                                   IF item.tag = "Ok"
                                   THEN EntryLine(item.entry)
                                   ELSE ErrorLine(ToPlumbahError(item.error)),
                                   outcome)
              /\ IF outcome = "ok"
                 THEN /\ total_entries' = IF item.tag = "Ok" THEN total_entries + 1 ELSE total_entries
                      /\ error_count' = IF item.tag = "Ok" THEN error_count ELSE error_count + 1
                      /\ IF item.tag = "Ok"
                         THEN /\ chan' = Tail(chan)
                              /\ UNCHANGED <<pc, rx_alive>>
                         ELSE /\ chan' = <<>>
                              /\ pc' = "tail"
                              /\ rx_alive' = FALSE
                      /\ UNCHANGED exit_code
                 ELSE /\ RunJsonlFail
                      /\ UNCHANGED <<total_entries, error_count>>
    /\ UNCHANGED <<entries, errors, snapshot>>
    /\ UNCHANGED walkVars
    /\ UNCHANGED optVars
    /\ UNCHANGED diffVars
    /\ UNCHANGED runVars
    /\ UNCHANGED errVars
    /\ UNCHANGED parseVars

\* run_jsonl, one turn of the loop that received an item: write_entry for
\* Ok, write_error for Err; the counter moves only after flush succeeded.
StreamItem ==
    /\ mode = "stream"
    /\ pc = "loop"
    /\ chan # <<>>
    /\ LET item == Head(chan)
       IN  \E outcome \in WriteOutcomes :
              /\ writer' = Written(writer,
                                   IF item.tag = "Ok"
                                   THEN EntryLine(item.entry)
                                   ELSE ErrorLine(ToPlumbahError(item.error)),
                                   outcome)
              /\ IF outcome = "ok"
                 THEN /\ total_entries' = IF item.tag = "Ok" THEN total_entries + 1 ELSE total_entries
                      /\ error_count' = IF item.tag = "Ok" THEN error_count ELSE error_count + 1
                      /\ chan' = Tail(chan)
                      /\ UNCHANGED <<pc, exit_code, rx_alive>>
                 ELSE /\ RunJsonlFail
                      /\ UNCHANGED <<total_entries, error_count>>
    /\ UNCHANGED <<entries, errors, snapshot>>
    /\ UNCHANGED walkVars
    /\ UNCHANGED optVars
    /\ UNCHANGED diffVars
    /\ UNCHANGED runVars
    /\ UNCHANGED errVars
    /\ UNCHANGED parseVars

\* run_jsonl: recv() returned Err, the loop ends and the iterator is dropped.
StreamEnd ==
    /\ mode = "stream"
    /\ pc = "loop"
    /\ chan = <<>>
    /\ AllSendersDropped
    /\ pc' = "tail"
    /\ rx_alive' = FALSE
    /\ UNCHANGED <<entries, errors, snapshot, writer, total_entries, error_count, exit_code>>
    /\ UNCHANGED chan
    /\ UNCHANGED walkVars
    /\ UNCHANGED optVars
    /\ UNCHANGED diffVars
    /\ UNCHANGED runVars
    /\ UNCHANGED errVars
    /\ UNCHANGED parseVars

\* run_jsonl: write_tail, then Ok(RunResult { exit_code: streaming.exit_code() }).
WriteTail ==
    /\ mode = "stream"
    /\ pc = "tail"
    /\ \E outcome \in WriteOutcomes :
          /\ writer' = Written(writer, TailLine(total_entries, error_count), outcome)
          /\ IF outcome = "ok"
             THEN /\ pc' = "done"
                  /\ exit_code' = Some(StreamExitCode)
                  /\ UNCHANGED <<rx_alive, chan>>
             ELSE RunJsonlFail
    /\ UNCHANGED <<entries, errors, snapshot, total_entries, error_count>>
    /\ UNCHANGED walkVars
    /\ UNCHANGED optVars
    /\ UNCHANGED diffVars
    /\ UNCHANGED runVars
    /\ UNCHANGED errVars
    /\ UNCHANGED parseVars

\* ---------------------------------------------------------------- diff
MaxDiffEntries == 4

\* SnapshotEntry values as a snapshot file can hold them: on path <<1>> a
\* file, the same file with another mtime, the same file with another mode,
\* and a directory; on path <<2>> a file, the same file with other content,
\* and a symlink.
Entry(p, ty, sz, md, mt, ck, tg) ==
    [path |-> p, entry_type |-> ty, size |-> sz, mode |-> md,
     mtime |-> mt, checksum |-> ck, target |-> tg]

SampleEntries ==
    {Entry(<<1>>, "File", Some(1), Some("0644"), 1, Some("h1"), None),
     Entry(<<1>>, "File", Some(1), Some("0644"), 2, Some("h1"), None),
     Entry(<<1>>, "File", Some(1), Some("0755"), 1, Some("h1"), None),
     Entry(<<1>>, "Directory", None, Some("0755"), 1, None, None),
     Entry(<<2>>, "File", Some(1), Some("0644"), 1, Some("h1"), None),
     Entry(<<2>>, "File", Some(1), Some("0644"), 1, Some("h2"), None),
     Entry(<<2>>, "Symlink", None, Some("0777"), 1, None, Some(<<1>>))}

\* The entry sequences of at most n entries.
EntrySeqs(n) == UNION {[1..k -> SampleEntries] : k \in 0..n}

DiffOptionSets ==
    [ignore_time : BOOLEAN, ignore_mode : BOOLEAN, structure_only : BOOLEAN]

\* Mutant of EntryMap: of several entries with one path the first one stays.
EntryMap_firstWins(es) ==
    [p \in {es[i].path : i \in 1..Len(es)} |->
        es[CHOOSE i \in 1..Len(es) :
              es[i].path = p /\ \A j \in 1..(i - 1) : es[j].path # p]]

\* entries.iter().map(|e| (e.path.clone(), e.clone())).collect::<HashMap>():
\* of several entries with one path the last one stays.
EntryMap(es) ==
    [p \in {es[i].path : i \in 1..Len(es)} |->
        es[CHOOSE i \in 1..Len(es) :
              es[i].path = p /\ \A j \in (i + 1)..Len(es) : es[j].path # p]]

\* The BTreeSet of the keys of both maps, in iteration (ascending) order.
RECURSIVE PathsInOrder(_)
PathsInOrder(S) ==
    IF S = {} THEN <<>>
    ELSE LET m == CHOOSE p \in S : \A q \in S : PathLeq(p, q)
         IN  <<m>> \o PathsInOrder(S \ {m})

AllPaths(source_map, target_map) == PathsInOrder(DOMAIN source_map \cup DOMAIN target_map)

\* Mutant of CompareEntries: a Difference is returned also when nothing differs.
CompareEntries_alwaysSome(opts, src, tgt) ==
    LET c1 == IF src.entry_type # tgt.entry_type THEN <<"type">> ELSE <<>>
        c2 == IF ~opts.structure_only /\ src.checksum # tgt.checksum THEN <<"content">> ELSE <<>>
        changes == c1 \o c2
    IN  Some([path |-> src.path, change_type |-> "modified", changes |-> changes,
              source |-> Some(src), target |-> Some(tgt), error |-> None])

\* Mutant of CompareEntries: size is compared under structure_only too.
CompareEntries_sizeAlways(opts, src, tgt) ==
    LET c1 == IF src.entry_type # tgt.entry_type THEN <<"type">> ELSE <<>>
        c2 == IF ~opts.structure_only /\ src.checksum # tgt.checksum THEN <<"content">> ELSE <<>>
        c3 == IF ~opts.structure_only /\ ~opts.ignore_mode /\ src.mode # tgt.mode
              THEN <<"mode">> ELSE <<>>
        c4 == IF ~opts.structure_only /\ ~opts.ignore_time /\ src.mtime # tgt.mtime
              THEN <<"mtime">> ELSE <<>>
        c5 == IF src.size # tgt.size THEN <<"size">> ELSE <<>>
        c6 == IF ~opts.structure_only /\ src.target # tgt.target THEN <<"target">> ELSE <<>>
        changes == c1 \o c2 \o c3 \o c4 \o c5 \o c6
    IN  IF changes = <<>> THEN None
        ELSE Some([path |-> src.path, change_type |-> "modified", changes |-> changes,
                   source |-> Some(src), target |-> Some(tgt), error |-> None])

\* DiffEngine::compare_entries: None, or Some(Difference) with the changes in
\* the order they are pushed.
CompareEntries(opts, src, tgt) ==
    LET c1 == IF src.entry_type # tgt.entry_type THEN <<"type">> ELSE <<>>
        c2 == IF ~opts.structure_only /\ src.checksum # tgt.checksum THEN <<"content">> ELSE <<>>
        c3 == IF ~opts.structure_only /\ ~opts.ignore_mode /\ src.mode # tgt.mode
              THEN <<"mode">> ELSE <<>>
        c4 == IF ~opts.structure_only /\ ~opts.ignore_time /\ src.mtime # tgt.mtime
              THEN <<"mtime">> ELSE <<>>
        c5 == IF ~opts.structure_only /\ src.size # tgt.size THEN <<"size">> ELSE <<>>
        c6 == IF ~opts.structure_only /\ src.target # tgt.target THEN <<"target">> ELSE <<>>
        changes == c1 \o c2 \o c3 \o c4 \o c5 \o c6
    IN  IF changes = <<>> THEN None
        ELSE Some([path |-> src.path, change_type |-> "modified", changes |-> changes,
                   source |-> Some(src), target |-> Some(tgt), error |-> None])

DiffSummaryDefault == [added |-> 0, removed |-> 0, modified |-> 0, unchanged |-> 0]

\* Mutant of DiffPath: an entry found equal in both snapshots is not counted.
DiffPath_unchangedUncounted(opts, source_map, target_map, acc, path) ==
    IF path \in DOMAIN source_map /\ path \in DOMAIN target_map
    THEN LET diff == CompareEntries(opts, source_map[path], target_map[path])
         IN  IF diff # None
             THEN [summary |-> [acc.summary EXCEPT !.modified = @ + 1],
                   differences |-> Append(acc.differences, diff[1])]
             ELSE acc
    ELSE IF path \in DOMAIN source_map
    THEN [summary |-> [acc.summary EXCEPT !.removed = @ + 1],
          differences |-> Append(acc.differences,
                                 [path |-> path, change_type |-> "removed", changes |-> <<>>,
                                  source |-> Some(source_map[path]), target |-> None,
                                  error |-> None])]
    ELSE [summary |-> [acc.summary EXCEPT !.added = @ + 1],
          differences |-> Append(acc.differences,
                                 [path |-> path, change_type |-> "added", changes |-> <<>>,
                                  source |-> None, target |-> Some(target_map[path]),
                                  error |-> None])]

\* Mutant of DiffPath: a path found only in the source is counted as added.
DiffPath_removedAsAdded(opts, source_map, target_map, acc, path) ==
    IF path \in DOMAIN source_map /\ path \in DOMAIN target_map
    THEN LET diff == CompareEntries(opts, source_map[path], target_map[path])
         IN  IF diff # None
             THEN [summary |-> [acc.summary EXCEPT !.modified = @ + 1],
                   differences |-> Append(acc.differences, diff[1])]
             ELSE [acc EXCEPT !.summary.unchanged = @ + 1]
    ELSE IF path \in DOMAIN source_map
    THEN [summary |-> [acc.summary EXCEPT !.added = @ + 1],
          differences |-> Append(acc.differences,
                                 [path |-> path, change_type |-> "removed", changes |-> <<>>,
                                  source |-> Some(source_map[path]), target |-> None,
                                  error |-> None])]
    ELSE [summary |-> [acc.summary EXCEPT !.added = @ + 1],
          differences |-> Append(acc.differences,
                                 [path |-> path, change_type |-> "added", changes |-> <<>>,
                                  source |-> None, target |-> Some(target_map[path]),
                                  error |-> None])]

\* Mutant of DiffPath: an Added difference carries the entry as its source too.
DiffPath_addedCarriesSource(opts, source_map, target_map, acc, path) ==
    IF path \in DOMAIN source_map /\ path \in DOMAIN target_map
    THEN LET diff == CompareEntries(opts, source_map[path], target_map[path])
         IN  IF diff # None
             THEN [summary |-> [acc.summary EXCEPT !.modified = @ + 1],
                   differences |-> Append(acc.differences, diff[1])]
             ELSE [acc EXCEPT !.summary.unchanged = @ + 1]
    ELSE IF path \in DOMAIN source_map
    THEN [summary |-> [acc.summary EXCEPT !.removed = @ + 1],
          differences |-> Append(acc.differences,
                                 [path |-> path, change_type |-> "removed", changes |-> <<>>,
                                  source |-> Some(source_map[path]), target |-> None,
                                  error |-> None])]
    ELSE [summary |-> [acc.summary EXCEPT !.added = @ + 1],
          differences |-> Append(acc.differences,
                                 [path |-> path, change_type |-> "added", changes |-> <<>>,
                                  source |-> Some(target_map[path]),
                                  target |-> Some(target_map[path]),
                                  error |-> None])]

\* One turn of the loop of DiffEngine::diff, for one path of all_paths.
DiffPath(opts, source_map, target_map, acc, path) ==
    IF path \in DOMAIN source_map /\ path \in DOMAIN target_map
    THEN LET diff == CompareEntries(opts, source_map[path], target_map[path])
         IN  IF diff # None
             THEN [summary |-> [acc.summary EXCEPT !.modified = @ + 1],
                   differences |-> Append(acc.differences, diff[1])]
             ELSE [acc EXCEPT !.summary.unchanged = @ + 1]
    ELSE IF path \in DOMAIN source_map
    THEN [summary |-> [acc.summary EXCEPT !.removed = @ + 1],
          differences |-> Append(acc.differences,
                                 [path |-> path, change_type |-> "removed", changes |-> <<>>,
                                  source |-> Some(source_map[path]), target |-> None,
                                  error |-> None])]
    ELSE [summary |-> [acc.summary EXCEPT !.added = @ + 1],
          differences |-> Append(acc.differences,
                                 [path |-> path, change_type |-> "added", changes |-> <<>>,
                                  source |-> None, target |-> Some(target_map[path]),
                                  error |-> None])]

\* The loop of DiffEngine::diff over all_paths.
RECURSIVE DiffLoop(_, _, _, _)
DiffLoop(opts, source_map, target_map, paths) ==
    IF paths = <<>> THEN [summary |-> DiffSummaryDefault, differences |-> <<>>]
    ELSE DiffPath(opts, source_map, target_map,
                  DiffLoop(opts, source_map, target_map, SubSeq(paths, 1, Len(paths) - 1)),
                  paths[Len(paths)])

\* Meta::new of DiffEngine::diff.
DiffMeta ==
    [tool |-> "galdi_diff", idempotent |-> TRUE, mutates |-> FALSE, safe |-> TRUE,
     deterministic |-> TRUE]

\* Mutant of Identical: only modified entries count as a difference.
Identical_modifiedOnly(differences) ==
    \A i \in 1..Len(differences) : differences[i].change_type # "modified"

\* identical: differences.is_empty().
Identical(differences) == differences = <<>>

\* DiffEngine::diff.
DiffEngineDiff(opts, src, tgt) ==
    LET source_map == EntryMap(src)
        target_map == EntryMap(tgt)
        acc == DiffLoop(opts, source_map, target_map, AllPaths(source_map, target_map))
        differences == SortByPath(acc.differences)
    IN  [plumbah |-> PlumbahObjectNew("Ok", DiffMeta),
         identical |-> Identical(differences),
         summary |-> acc.summary,
         differences |-> differences]

\* A call of DiffEngine::diff on two loaded snapshots.
Diff ==
    /\ mode = "diff"
    /\ inputs = None
    /\ diff_result = None
    /\ diff_result' = Some(DiffEngineDiff(diff_options, source, target))
    /\ UNCHANGED <<source, target, diff_options>>
    /\ UNCHANGED runVars
    /\ UNCHANGED errVars
    /\ UNCHANGED parseVars
    /\ UNCHANGED <<chan, rx_alive>>
    /\ UNCHANGED consVars
    /\ UNCHANGED walkVars
    /\ UNCHANGED optVars

\* ---------------------------------------------------------------- run
MaxLoadEntries == 1

\* The exit code the tools derive from a status (the Envelope::Error arm of
\* run_json; run of galdi_diff).
StatusExitCode(status) ==
    IF status = "Ok" THEN 0 ELSE IF status = "Partial" THEN 2 ELSE 1

\* What a path argument of galdi_diff names: "-" (stdin), a *.json file, or
\* anything else, a directory to scan; good says whether stdin holds a
\* snapshot, whether the file can be opened and holds one, whether the
\* directory exists.
DiffInputs ==
    [path : {"-", "snap.json", "dir"}, good : BOOLEAN]

\* load_snapshot: Err when the JSON cannot be read; the live scan returns a
\* snapshot (without entries when the root is missing), never Err.
Loads(input) == input.path = "dir" \/ input.good

\* load_snapshot(&args.source): Ok or Err.
SourceLoads(ins) == Loads(ins.source)

\* load_snapshot(&args.target), called after the source was loaded: when both
\* name stdin, the source has read it to its end.
TargetLoads(ins) ==
    IF ins.source.path = "-" /\ ins.target.path = "-" THEN FALSE ELSE Loads(ins.target)

\* Meta::new(tool, .., true, false, true, true, ..).with_default_profiles().
RunMeta(tool) ==
    [tool |-> tool, idempotent |-> TRUE, mutates |-> FALSE, safe |-> TRUE,
     deterministic |-> TRUE, profiles |-> Some(<<"_determinism">>)]

\* PlumbahObject::with_errors.
WithErrors(obj, errs) == [obj EXCEPT !.errors = Some(errs)]

\* The error of a failed load in run of galdi_diff.
LoadError ==
    [code |-> "LOAD_ERROR", message |-> "e", path |-> None, recoverable |-> FALSE,
     context |-> None]

\* run of galdi_snapshot under --plumbah-info: the envelope alone, exit code 0;
\* no Scanner is built.
SnapshotRunInfo ==
    /\ mode \in {"batch", "stream"}
    /\ pc = "start"
    /\ plumbah_info
    /\ output' = Some(PlumbahObjectNew("Ok", RunMeta("galdi_snapshot")))
    /\ exit_code' = Some(0)
    /\ pc' = "done"
    /\ UNCHANGED <<plumbah_info, inputs>>
    /\ UNCHANGED errVars
    /\ UNCHANGED parseVars
    /\ UNCHANGED <<chan, rx_alive, entries, errors, snapshot, writer, total_entries, error_count>>
    /\ UNCHANGED walkVars
    /\ UNCHANGED optVars
    /\ UNCHANGED diffVars

\* run of galdi_diff under --plumbah-info: the envelope alone, exit code 0;
\* nothing is loaded.
DiffRunInfo ==
    /\ mode = "diff"
    /\ inputs # None
    /\ pc = "start"
    /\ plumbah_info
    /\ output' = Some(PlumbahObjectNew("Ok", RunMeta("galdi_diff")))
    /\ exit_code' = Some(0)
    /\ pc' = "done"
    /\ UNCHANGED <<plumbah_info, inputs>>
    /\ UNCHANGED errVars
    /\ UNCHANGED parseVars
    /\ UNCHANGED <<chan, rx_alive, entries, errors, snapshot, writer, total_entries, error_count>>
    /\ UNCHANGED walkVars
    /\ UNCHANGED optVars
    /\ UNCHANGED diffVars

\* Mutant of DiffRun: the result takes the worse status of the two inputs.
DiffRun_propagatesStatus ==
    /\ mode = "diff"
    /\ inputs # None
    /\ pc = "start"
    /\ ~plumbah_info
    /\ IF SourceLoads(inputs[1]) /\ TargetLoads(inputs[1])
       THEN LET diffed == DiffEngineDiff(diff_options, source, target)
                loaded == {inputs[1].source.status[1], inputs[1].target.status[1]}
                result == [diffed EXCEPT !.plumbah.status =
                              IF "Error" \in loaded THEN "Error"
                              ELSE IF "Partial" \in loaded THEN "Partial" ELSE "Ok"]
            IN  /\ diff_result' = Some(result)
                /\ output' = Some(result)
                /\ exit_code' = Some(StatusExitCode(result.plumbah.status))
       ELSE LET error == WithErrors(PlumbahObjectNew("Error", RunMeta("galdi_diff")),
                                    <<LoadError>>)
            IN  /\ output' = Some(error)
                /\ exit_code' = Some(StatusExitCode(error.status))
                /\ UNCHANGED diff_result
    /\ pc' = "done"
    /\ UNCHANGED <<source, target, diff_options, plumbah_info, inputs>>
    /\ UNCHANGED errVars
    /\ UNCHANGED parseVars
    /\ UNCHANGED <<chan, rx_alive, entries, errors, snapshot, writer, total_entries, error_count>>
    /\ UNCHANGED walkVars
    /\ UNCHANGED optVars

\* run of galdi_diff: load both inputs, then either diff them or build the
\* Error envelope; the exit code follows the status of the envelope.
DiffRun ==
    /\ mode = "diff"
    /\ inputs # None
    /\ pc = "start"
    /\ ~plumbah_info
    /\ IF SourceLoads(inputs[1]) /\ TargetLoads(inputs[1])
       THEN LET result == DiffEngineDiff(diff_options, source, target)
            IN  /\ diff_result' = Some(result)
                /\ output' = Some(result)
                /\ exit_code' = Some(StatusExitCode(result.plumbah.status))
       ELSE LET error == WithErrors(PlumbahObjectNew("Error", RunMeta("galdi_diff")),
                                    <<LoadError>>)
            IN  /\ output' = Some(error)
                /\ exit_code' = Some(StatusExitCode(error.status))
                /\ UNCHANGED diff_result
    /\ pc' = "done"
    /\ UNCHANGED <<source, target, diff_options, plumbah_info, inputs>>
    /\ UNCHANGED errVars
    /\ UNCHANGED parseVars
    /\ UNCHANGED <<chan, rx_alive, entries, errors, snapshot, writer, total_entries, error_count>>
    /\ UNCHANGED walkVars
    /\ UNCHANGED optVars

\* ---------------------------------------------------------------- errors
MaxPathLen == 4

\* The paths a ScanError can name: at most MaxPathLen components.
ErrorPaths == UNION {[1..k -> 1..2] : k \in 0..MaxPathLen}

\* The values of ScanError.
ScanErrors ==
    {PathError(kind, path) :
        kind \in {"PathNotFound", "PermissionDenied", "SymlinkLoop"}, path \in ErrorPaths}
    \cup {IoError(msg) : msg \in {"metadata", "prefix not found", "hash_file", "read_link", "walk",
                                  "filesystem walker panicked"}}

\* What the walker and create_entry report: an ignore::Error (a symlink loop
\* with the child's path, an I/O error with the path it occurred on) or an
\* io::Error, with the io::ErrorKind of the I/O errors.
Failures ==
    [type : {"ignore::Error"}, kind : {"Loop", "PermissionDenied", "NotFound", "Other"},
     path : ErrorPaths]
    \cup [type : {"io::Error"}, kind : {"PermissionDenied", "NotFound", "Other"},
          path : ErrorPaths]

\* err.to_string(): the text names the kind and the path.
ErrToString(f) == <<f.type, f.kind, f.path>>

\* From<ignore::Error> for ScanError and the #[from] std::io::Error of
\* ScanError::Io: every failure becomes ScanError::Io.
ScanErrorFrom(f) == IoError(ErrToString(f))

\* The `?` of create_entry or the ScanError::from(err) of the visitor closure.
FromFailure ==
    /\ mode = "error"
    /\ failure # None
    /\ scan_error = None
    /\ scan_error' = Some(ScanErrorFrom(failure[1]))
    /\ UNCHANGED <<failure, plumbah_error>>
    /\ UNCHANGED <<chan, rx_alive>>
    /\ UNCHANGED consVars
    /\ UNCHANGED walkVars
    /\ UNCHANGED optVars
    /\ UNCHANGED diffVars
    /\ UNCHANGED runVars
    /\ UNCHANGED parseVars

\* A call of ScanError::to_plumbah_error.
Convert ==
    /\ mode = "error"
    /\ scan_error # None
    /\ plumbah_error = None
    /\ plumbah_error' = Some(ToPlumbahError(scan_error[1]))
    /\ UNCHANGED <<failure, scan_error>>
    /\ UNCHANGED <<chan, rx_alive>>
    /\ UNCHANGED consVars
    /\ UNCHANGED walkVars
    /\ UNCHANGED optVars
    /\ UNCHANGED diffVars
    /\ UNCHANGED runVars
    /\ UNCHANGED parseVars

\* ---------------------------------------------------------------- algorithm names
\* A name is the sequence of its characters.
XXH3_64Name == <<"x", "x", "h", "3", "_", "6", "4">>

Sha256Name == <<"s", "h", "a", "2", "5", "6">>

Blake3Name == <<"b", "l", "a", "k", "e", "3">>

\* char::to_lowercase and char::to_uppercase on the characters the names use.
LowerOf ==
    [c \in {"A", "B", "D", "E", "H", "K", "L", "M", "S", "X"} |->
        CASE c = "A" -> "a" [] c = "B" -> "b" [] c = "D" -> "d" [] c = "E" -> "e"
          [] c = "H" -> "h" [] c = "K" -> "k" [] c = "L" -> "l" [] c = "M" -> "m"
          [] c = "S" -> "s" [] c = "X" -> "x"]

Lower(c) == IF c \in DOMAIN LowerOf THEN LowerOf[c] ELSE c

Upper(c) == IF \E u \in DOMAIN LowerOf : LowerOf[u] = c
            THEN CHOOSE u \in DOMAIN LowerOf : LowerOf[u] = c
            ELSE c

\* str::to_lowercase.
ToLowercase(s) == [i \in DOMAIN s |-> Lower(s[i])]

\* The spellings of a lower-case name in every mix of cases.
Spellings(name) ==
    {[i \in DOMAIN name |-> IF i \in U THEN Upper(name[i]) ELSE name[i]] :
        U \in SUBSET (DOMAIN name)}

\* The strings handed to from_str: the algorithm names and other strings, in
\* every mix of cases.
AlgorithmNames ==
    UNION {Spellings(n) : n \in {XXH3_64Name, Sha256Name, Blake3Name,
                                  <<"m", "d", "5">>, <<"s", "h", "a", "1">>,
                                  <<"x", "x", "h", "6", "4">>,
                                  <<"s", "h", "a", "2", "5", "6", " ">>, <<>>}}

\* ChecksumAlgorithm::from_str.
FromStr(s) ==
    CASE ToLowercase(s) = XXH3_64Name -> Ok("xxh3_64")
      [] ToLowercase(s) = Sha256Name  -> Ok("sha256")
      [] OTHER                        -> Err(<<"Invalid checksum algorithm: ", s>>)

\* A call of ChecksumAlgorithm::from_str.
Parse ==
    /\ mode = "parse"
    /\ algorithm_name # None
    /\ parsed = None
    /\ parsed' = Some(FromStr(algorithm_name[1]))
    /\ UNCHANGED algorithm_name
    /\ UNCHANGED <<chan, rx_alive>>
    /\ UNCHANGED consVars
    /\ UNCHANGED walkVars
    /\ UNCHANGED optVars
    /\ UNCHANGED diffVars
    /\ UNCHANGED runVars
    /\ UNCHANGED errVars

\* ---------------------------------------------------------------- Next
Next ==
    \/ ScanIter
    \/ WalkerStart
    \/ \E p \in DOMAIN fs : WorkerTake(p)
    \/ \E p \in DOMAIN fs : WorkerVisit(p)
    \/ \E p \in DOMAIN fs : WorkerDescend(p)
    \/ WorkerExit
    \/ WorkerExitAfterFault
    \/ WalkerFinish
    \/ ScanItem
    \/ ScanReturn
    \/ WriteHead
    \/ StreamItem
    \/ StreamEnd
    \/ WriteTail
    \/ Diff
    \/ SnapshotRunInfo
    \/ DiffRunInfo
    \/ DiffRun
    \/ FromFailure
    \/ Convert
    \/ Parse

Spec == Init /\ [][Next]_vars

\* A run of run_json: the walker, the workers and Scanner::scan.
NextScan ==
    \/ ScanIter
    \/ WalkerStart
    \/ \E p \in DOMAIN fs : WorkerTake(p)
    \/ \E p \in DOMAIN fs : WorkerVisit(p)
    \/ \E p \in DOMAIN fs : WorkerDescend(p)
    \/ WorkerExit
    \/ WorkerExitAfterFault
    \/ WalkerFinish
    \/ ScanItem
    \/ ScanReturn

InitScan == Init /\ mode = "batch"

ScanSpec == InitScan /\ [][NextScan]_vars

\* A run of run_jsonl: the walker, the workers and the streaming loop.
NextStream ==
    \/ WriteHead
    \/ ScanIter
    \/ WalkerStart
    \/ \E p \in DOMAIN fs : WorkerTake(p)
    \/ \E p \in DOMAIN fs : WorkerVisit(p)
    \/ \E p \in DOMAIN fs : WorkerDescend(p)
    \/ WorkerExit
    \/ WorkerExitAfterFault
    \/ WalkerFinish
    \/ StreamItem
    \/ StreamEnd
    \/ WriteTail

InitStream == Init /\ mode = "stream"

StreamSpec == InitStream /\ [][NextStream]_vars

\* Two snapshots with at most MaxDiffEntries entries between them, and an
\* option set; no scan is run.
InitDiff ==
    /\ source \in EntrySeqs(MaxDiffEntries)
    /\ target \in EntrySeqs(MaxDiffEntries - Len(source))
    /\ diff_options \in DiffOptionSets
    /\ diff_result = None
    /\ NoInfo
    /\ NoConversion
    /\ NoParse
    /\ fs = [p \in {Root} |-> Absent]
    /\ threads = 1
    /\ mode = "diff"
    /\ checksum_algorithm = "xxh3_64"
    /\ exclude_patterns = {}
    /\ InitRun

NextDiff == Diff

DiffSpec == InitDiff /\ [][NextDiff]_vars

\* SnapshotEntry values for one path, every attribute with two values (three
\* for the type).
PairEntries ==
    {Entry(<<1>>, ty, sz, md, mt, ck, tg) :
        ty \in {"File", "Directory", "Symlink"}, sz \in {None, Some(1)},
        md \in {Some("0644"), Some("0755")}, mt \in {1, 2},
        ck \in {None, Some("h1")}, tg \in {None, Some(<<2>>)}}

\* Two snapshots of one entry each, at the same path, and an option set.
InitCompare ==
    /\ source \in [1..1 -> PairEntries]
    /\ target \in [1..1 -> PairEntries]
    /\ diff_options \in DiffOptionSets
    /\ diff_result = None
    /\ NoInfo
    /\ NoConversion
    /\ NoParse
    /\ fs = [p \in {Root} |-> Absent]
    /\ threads = 1
    /\ mode = "diff"
    /\ checksum_algorithm = "xxh3_64"
    /\ exclude_patterns = {}
    /\ InitRun

CompareSpec == InitCompare /\ [][NextDiff]_vars

\* A run of galdi_snapshot, with or without --plumbah-info (--jsonl only
\* with it), or a run of galdi_diff on two inputs that hold at most
\* MaxLoadEntries entries each.
InitTool ==
    \/ /\ NoDiff
       /\ NoConversion
       /\ NoParse
       /\ inputs = None
       /\ plumbah_info \in BOOLEAN
       /\ fs \in {f \in Trees(MaxObjects) : IsTree(f)}
       /\ threads \in 1..MaxThreads
       /\ mode \in {"batch", "stream"}
       /\ mode = "stream" => plumbah_info
       /\ checksum_algorithm \in ChecksumAlgorithms
       /\ exclude_patterns = {}
       /\ InitRun
    \/ /\ NoConversion
       /\ NoParse
       /\ inputs \in {<<i>> : i \in [source : DiffInputs, target : DiffInputs]}
       /\ plumbah_info \in BOOLEAN
       /\ source \in IF inputs[1].source.good THEN EntrySeqs(MaxLoadEntries) ELSE {<<>>}
       /\ target \in IF inputs[1].target.good THEN EntrySeqs(MaxLoadEntries) ELSE {<<>>}
       /\ diff_options \in DiffOptionSets
       /\ diff_result = None
       /\ fs = [p \in {Root} |-> Absent]
       /\ threads = 1
       /\ mode = "diff"
       /\ checksum_algorithm = "xxh3_64"
       /\ exclude_patterns = {}
       /\ InitRun

NextTool ==
    \/ NextScan
    \/ SnapshotRunInfo
    \/ DiffRunInfo
    \/ DiffRun

ToolSpec == InitTool /\ [][NextTool]_vars

\* The inputs of galdi_diff with the status of the snapshot each one holds:
\* a file with a snapshot of any status, stdin, a directory whose scan is
\* Ok or Partial, a directory that does not exist (its scan is Partial and
\* has no entries), a file that does not parse.
StatusInputs ==
    {[path |-> "snap.json", good |-> TRUE, status |-> Some(st)] : st \in {"Ok", "Partial", "Error"}}
    \cup {[path |-> "dir", good |-> TRUE, status |-> Some(st)] : st \in {"Ok", "Partial"}}
    \cup {[path |-> "-", good |-> TRUE, status |-> Some("Ok")],
          [path |-> "dir", good |-> FALSE, status |-> Some("Partial")],
          [path |-> "snap.json", good |-> FALSE, status |-> None]}

\* A run of galdi_diff on two such inputs.
InitLoad ==
    /\ NoConversion
    /\ NoParse
    /\ inputs \in {<<i>> : i \in [source : StatusInputs, target : StatusInputs]}
    /\ plumbah_info = FALSE
    /\ source \in IF inputs[1].source.good THEN EntrySeqs(MaxLoadEntries) ELSE {<<>>}
    /\ target \in IF inputs[1].target.good THEN EntrySeqs(MaxLoadEntries) ELSE {<<>>}
    /\ diff_options = DefaultDiffOptions
    /\ diff_result = None
    /\ fs = [p \in {Root} |-> Absent]
    /\ threads = 1
    /\ mode = "diff"
    /\ checksum_algorithm = "xxh3_64"
    /\ exclude_patterns = {}
    /\ InitRun

NextLoad == DiffRun

LoadSpec == InitLoad /\ [][NextLoad]_vars

\* One ScanError of any kind; no scan is run.
InitConvert ==
    /\ scan_error \in {Some(e) : e \in ScanErrors}
    /\ failure = None
    /\ NoParse
    /\ NoDiff
    /\ plumbah_info = FALSE
    /\ inputs = None
    /\ fs = [p \in {Root} |-> Absent]
    /\ threads = 1
    /\ mode = "error"
    /\ checksum_algorithm = "xxh3_64"
    /\ exclude_patterns = {}
    /\ InitRun

NextConvert == Convert

ErrorSpec == InitConvert /\ [][NextConvert]_vars

\* One failure of the walker or of create_entry, converted and reported.
InitFailure ==
    /\ failure \in {Some(f) : f \in Failures}
    /\ scan_error = None
    /\ NoParse
    /\ NoDiff
    /\ NoInfo
    /\ fs = [p \in {Root} |-> Absent]
    /\ threads = 1
    /\ mode = "error"
    /\ checksum_algorithm = "xxh3_64"
    /\ exclude_patterns = {}
    /\ InitRun

NextFailure == FromFailure \/ Convert

FailureSpec == InitFailure /\ [][NextFailure]_vars

\* One string to parse as an algorithm name; no scan is run.
InitParse ==
    /\ algorithm_name \in {Some(n) : n \in AlgorithmNames}
    /\ parsed = None
    /\ NoConversion
    /\ NoDiff
    /\ NoInfo
    /\ fs = [p \in {Root} |-> Absent]
    /\ threads = 1
    /\ mode = "parse"
    /\ checksum_algorithm = "xxh3_64"
    /\ exclude_patterns = {}
    /\ InitRun

NextParse == Parse

ParseSpec == InitParse /\ [][NextParse]_vars

\* The sets of exclude patterns of the scans with --exclude.
ExcludeSets ==
    {{Glob(<<1>>)}, {Glob(<<1, 1>>)}, {Glob(<<1>>), Glob(<<2>>)}, {InvalidGlob}}

\* A scan with exclude patterns, in batch or in streaming mode.
InitExclude ==
    /\ NoDiff
    /\ NoInfo
    /\ NoConversion
    /\ NoParse
    /\ fs \in {f \in Trees(MaxObjects) : IsTree(f)}
    /\ threads \in 1..MaxThreads
    /\ mode \in {"batch", "stream"}
    /\ checksum_algorithm = "xxh3_64"
    /\ exclude_patterns \in ExcludeSets
    /\ InitRun

NextExclude ==
    \/ WriteHead
    \/ ScanIter
    \/ WalkerStart
    \/ \E p \in DOMAIN fs : WorkerTake(p)
    \/ \E p \in DOMAIN fs : WorkerVisit(p)
    \/ \E p \in DOMAIN fs : WorkerDescend(p)
    \/ WorkerExit
    \/ WorkerExitAfterFault
    \/ WalkerFinish
    \/ ScanItem
    \/ ScanReturn
    \/ StreamItem
    \/ StreamEnd
    \/ WriteTail

ExcludeSpec == InitExclude /\ [][NextExclude]_vars

\* The steps of the galdi-walker thread and of the workers it runs, but for
\* WorkerExitAfterFault.
WalkerStep ==
    \/ WalkerStart
    \/ \E p \in DOMAIN fs : WorkerTake(p)
    \/ \E p \in DOMAIN fs : WorkerVisit(p)
    \/ \E p \in DOMAIN fs : WorkerDescend(p)
    \/ WorkerExit
    \/ WalkerFinish

\* The steps of the thread that called Scanner::scan.
ScanStep == ScanIter \/ ScanItem \/ ScanReturn

\* The walker's threads and the consumer are OS threads: a side that can take
\* a step eventually takes one (the consumer blocks only in recv()).  No
\* fairness is assumed for WorkerExitAfterFault.
Fairness == WF_vars(WalkerStep) /\ WF_vars(ScanStep)

\* The objects of the termination property: one of every kind of control flow (a
\* directory, an unreadable directory, a file, an unreadable file, a file on
\* which create_entry panics).
ControlObjects == {o \in Objects : o.kind \in {"dir", "file"}}

InitLive ==
    /\ NoDiff
    /\ NoInfo
    /\ NoConversion
    /\ NoParse
    /\ fs \in {f \in Trees(MaxObjects) :
                  IsTree(f) /\ \A p \in DOMAIN f \ {Root} : f[p] \in ControlObjects}
    /\ threads \in 1..MaxThreads
    /\ mode = "batch"
    /\ checksum_algorithm = "xxh3_64"
    /\ exclude_patterns = {}
    /\ InitRun

FairSpec == InitLive /\ [][NextScan]_vars /\ Fairness

\* ================================================================ claims
OkItems(s) == SelectSeq(s, LAMBDA i : i.tag = "Ok")

ErrItems(s) == SelectSeq(s, LAMBDA i : i.tag = "Err")

EntryPaths(es) == {es[i].path : i \in 1..Len(es)}

IsSortedByPath(es) ==
    \A i \in 1..(Len(es) - 1) : PathLeq(es[i].path, es[i + 1].path)

Returned == snapshot # None

Snap == snapshot[1]

\* C1: the entries of every snapshot returned by Scanner::scan are sorted by
\* path, entries[i].path <= entries[i+1].path for every adjacent pair,
\* whatever the number of workers and the order of arrival on the channel.
C1_Sorted == Returned => IsSortedByPath(Snap.entries)

\* A scan returned at least two entries that had arrived out of path order.
C1_Witness ==
    /\ Returned
    /\ Len(Snap.entries) >= 2
    /\ ~IsSortedByPath(entries)

\* C2: every snapshot returned by Scanner::scan has count = len(entries),
\* also when some items were errors.
C2_CountMatches == Returned => Snap.count = Len(Snap.entries)

\* A scan returned entries although some items were errors.
C2_Witness ==
    /\ Returned
    /\ errors # <<>>
    /\ Snap.count >= 2

EntryCoupled(e) ==
    /\ (e.checksum # None) <=> (e.entry_type = "File")
    /\ (e.target # None) <=> (e.entry_type = "Symlink")

\* The entries among the lines of a stream.
WrittenEntries(w) ==
    {w[i].entry : i \in {j \in 1..Len(w) : w[j].line = "entry"}}

\* C3: every entry the scanner emits, in batch or stream mode, has a checksum
\* if and only if its type is File and a target if and only if its type is
\* Symlink: on the channel, and from there in the stream's entry lines.
C3_TypeAttributeCoupling ==
    /\ \A i \in 1..Len(chan) : chan[i].tag = "Ok" => EntryCoupled(chan[i].entry)
    /\ \A e \in WrittenEntries(writer) : EntryCoupled(e)

\* The scanner emitted a File entry and a Symlink entry.
C3_Witness ==
    /\ \E e \in WrittenEntries(writer) : e.entry_type = "File" /\ e.checksum # None
    /\ \E e \in WrittenEntries(writer) : e.entry_type = "Symlink" /\ e.target # None

\* The objects the walk reaches: they exist, and every directory above them
\* exists and can be read.
Reached(f) ==
    {p \in DOMAIN f :
        /\ f[p] # Absent
        /\ \A k \in 0..(Len(p) - 1) :
              /\ f[SubSeq(p, 1, k)].kind = "dir"
              /\ f[SubSeq(p, 1, k)].fault = "none"}

\* The reached objects for which create_entry returns Ok.
Healthy(f) ==
    {p \in Reached(f) : CreateEntry(checksum_algorithm, p, f[p]).tag = "Ok"}

\* The number of Err items a complete walk of f sends: the missing root, the
\* objects for which create_entry returns Err, the directories that cannot
\* be read.
ErrorItems(f) ==
    IF f[Root] = Absent THEN 1
    ELSE Cardinality({p \in Reached(f) : CreateEntry(checksum_algorithm, p, f[p]).tag = "Err"})
         + Cardinality({p \in Reached(f) : f[p].kind = "dir" /\ f[p].fault = "io"})

HasPanic(f) == \E p \in Reached(f) : f[p].fault = "panic"

Finished == pc \in {"done", "failed"}

\* C4: a per-entry error never aborts Scanner::scan.  The scan returns a
\* snapshot; its entries are the Ok items received, its status is Partial if
\* at least one Err item was received and Ok if none was, the failed entries
\* are neither in entries nor in count, and (no worker having unwound) every
\* object for which create_entry succeeds is in the snapshot and every error
\* was received.
C4_ErrorsDoNotAbort ==
    /\ (mode = "batch" /\ pc = "done") => Returned
    /\ Returned =>
          /\ Snap.plumbah.status = (IF errors = <<>> THEN "Ok" ELSE "Partial")
          /\ Len(Snap.entries) = Len(entries)
          /\ Snap.count = Len(entries)
          /\ EntryPaths(Snap.entries) = EntryPaths(entries)
          /\ ~HasPanic(fs) =>
                /\ EntryPaths(Snap.entries) = Healthy(fs)
                /\ Len(errors) = ErrorItems(fs)

\* A scan returned Partial: the object <<1>> failed, the object <<2>> next to
\* it is in the snapshot.
C4_Witness ==
    /\ Returned
    /\ ~HasPanic(fs)
    /\ Snap.plumbah.status = "Partial"
    /\ <<1>> \in Reached(fs) \ Healthy(fs)
    /\ <<2>> \in EntryPaths(Snap.entries)

\* C5: once the walker thread has ended (its workers finished normally or by
\* unwinding), every Sender is dropped, next() returns None and the consumer
\* returns: Scanner::scan yields a snapshot with status Ok or Partial.  A
\* scan of a tree on which no worker unwinds always terminates.
C5_Terminates ==
    (mode = "batch" /\ (walker = "done" \/ ~HasPanic(fs))) ~>
        (Returned /\ Snap.plumbah.status \in {"Ok", "Partial"})

\* A scan returned after a worker had unwound.
C5_Witness ==
    /\ Returned
    /\ walker = "done"
    /\ panicked > 0
    /\ Snap.plumbah.status = "Partial"

PanicErrors(errs) == SelectSeq(errs, LAMBDA e : e = WalkerPanicItem.error)

PanicItems(s) == SelectSeq(s, LAMBDA i : i = WalkerPanicItem)

\* C6: a panic in a worker is caught on the walker thread and becomes exactly
\* one synthetic Err item with code IO_ERROR on the same channel, after the
\* items already sent; the items sent before are delivered, the scan returns
\* Partial, and the panic changes no sibling's state: a sibling that stays
\* alive works off everything that is queued.
C6_StateOk ==
    /\ panicked = 0 => PanicItems(chan) = <<>> /\ PanicErrors(errors) = <<>>
    /\ Len(PanicItems(chan)) + Len(PanicErrors(errors)) <= 1
    /\ (walker = "done" /\ panicked > 0 /\ rx_alive) =>
          IF chan # <<>>
          THEN chan[Len(chan)] = WalkerPanicItem
          ELSE errors # <<>> /\ errors[Len(errors)] = WalkerPanicItem.error
    /\ (Returned /\ panicked > 0) =>
          /\ Snap.plumbah.status = "Partial"
          /\ Len(PanicErrors(errors)) = 1
          /\ errors[Len(errors)] = WalkerPanicItem.error
          /\ ToPlumbahError(WalkerPanicItem.error).code = "IO_ERROR"
          /\ chan = <<>>
          /\ panicked < threads => Healthy(fs) \subseteq EntryPaths(Snap.entries)

C6_StepOk ==
    /\ panicked' # panicked =>
          /\ panicked' = panicked + 1
          /\ active' \subseteq active
          /\ Cardinality(active \ active') = 1
          /\ pool' = pool
          /\ exited' = exited
          /\ quit_now' = quit_now
          /\ chan' = chan
          /\ walker' = walker
    /\ Len(chan') < Len(chan) =>
          /\ chan' = Tail(chan)
          /\ Len(entries') + Len(errors') = Len(entries) + Len(errors) + 1
    /\ walker = "done" => Len(chan') <= Len(chan)

Visiting(a) == {o \in a : o.phase = "visit"}

\* C7: once the consumer has dropped the ScanIterator, the next send of every
\* worker fails, its visitor returns Quit and the worker does not descend;
\* from then on no directory entry is dispatched to any worker, while the
\* operations already in flight complete.
C7_Step ==
    /\ quit_now => quit_now'
    /\ quit_now => Visiting(active') \subseteq Visiting(active)
    /\ ~rx_alive => chan' = <<>>
    /\ \A p \in DOMAIN fs :
          (/\ ~rx_alive
           /\ Op(p, "visit") \in active \ active'
           /\ panicked' = panicked) =>
              /\ quit_now'
              /\ Op(p, "descend") \notin active'
              /\ pool' = pool
    /\ \A p \in DOMAIN fs :
          (/\ ~rx_alive
           /\ Op(p, "descend") \in active \ active'
           /\ fs[p].fault = "io") => quit_now'

C7_QuitOnClosedChannel == [][C7_Step]_vars

\* The consumer dropped the stream early, a worker's send failed, and work
\* that was queued stays undispatched while a worker waits or has left.
C7_Witness ==
    /\ pc = "failed"
    /\ quit_now
    /\ pool # {}
    /\ Idle + exited > 0

\* path, checksum and type of an entry.
Triple(e) == <<e.path, e.checksum, e.entry_type>>

\* What a scan of the tree f yields when every reached object is visited.
CanonicalTriples(f) ==
    {Triple(CreateEntry(checksum_algorithm, p, f[p]).entry) : p \in Healthy(f)}

\* C8: whatever the number of workers (1 or more) and their interleaving,
\* Scanner::scan of one unchanged tree returns the same sorted sequence of
\* (path, checksum, type): the one made of every reached object.
C8_ParallelInvariance ==
    Returned =>
        /\ IsSortedByPath(Snap.entries)
        /\ Len(Snap.entries) = Cardinality(CanonicalTriples(fs))
        /\ {Triple(Snap.entries[i]) : i \in 1..Len(Snap.entries)} = CanonicalTriples(fs)

\* The two runs that differ: the tree holds the files <<1>> (an mtime that
\* makes create_entry panic) and <<2>>.
C8_Tree(f) ==
    /\ DOMAIN f = {Root, <<1>>, <<2>>}
    /\ f[Root].kind = "dir"
    /\ f[<<1>>] = [kind |-> "file", fault |-> "panic", content |-> 0]
    /\ f[<<2>>] = [kind |-> "file", fault |-> "none", content |-> 1]

C8_SingleWorkerRun ==
    /\ C8_Tree(fs) /\ threads = 1 /\ Returned
    /\ EntryPaths(Snap.entries) = {Root}

C8_MultiWorkerRun ==
    /\ C8_Tree(fs) /\ threads = 2 /\ Returned
    /\ EntryPaths(Snap.entries) = {Root, <<2>>}

\* On trees where no create_entry panics the result is the canonical one.
C8_WithoutPanic == (Returned /\ ~HasPanic(fs)) => C8_ParallelInvariance

\* ---------------------------------------------------------------- framing
LinesOf(w, kind) == SelectSeq(w, LAMBDA l : l.line = kind)

TailWritten == writer # <<>> /\ writer[Len(writer)].line = "tail"

\* C9: in a stream closed by a tail, with k entry lines and e error lines,
\* the line count is k+e+2, line 1 is the head, the last line is the tail with
\* summary.total = k and summary.errors = e, and the tail's status is Partial
\* if and only if e > 0 and Ok otherwise; k and e are the numbers of entries
\* and errors the scanner yielded.
C9_StreamFraming ==
    TailWritten =>
        LET k == Len(LinesOf(writer, "entry"))
            e == Len(LinesOf(writer, "error"))
            tail == writer[Len(writer)].plumbah
        IN  /\ Len(writer) = k + e + 2
            /\ writer[1].line = "head"
            /\ writer[1].plumbah.stream = Some("head")
            /\ tail.stream = Some("tail")
            /\ tail.summary[1].total = k
            /\ tail.summary[1].errors = e
            /\ (tail.status = "Partial") <=> (e > 0)
            /\ (tail.status = "Ok") <=> (e = 0)
            /\ walker = "done" /\ chan = <<>>
            /\ ~HasPanic(fs) =>
                  /\ k = Cardinality(Healthy(fs))
                  /\ e = ErrorItems(fs)

\* A stream with at least one entry line and one error line was closed.
C9_Witness ==
    /\ TailWritten
    /\ LinesOf(writer, "entry") # <<>>
    /\ LinesOf(writer, "error") # <<>>

\* C10: every run of run_jsonl is framed head, middle lines, tail: the head
\* is written before any scan item is produced, there is exactly one head and
\* at most one tail, every other line is a middle line, no line is written
\* after the tail, and a run that wrote a head has written a tail when it
\* ends, also when no entry was produced.
C10_StateOk ==
    /\ (mode = "stream" /\ walker # "unspawned") =>
          /\ writer # <<>>
          /\ writer[1].line = "head"
    /\ \A i \in 1..Len(writer) :
          /\ writer[i].line = "head" <=> i = 1
          /\ writer[i].line = "tail" => i = Len(writer)
          /\ writer[i].line \in {"head", "entry", "error", "tail"}
    /\ (mode = "stream" /\ Finished /\ writer # <<>>) => TailWritten

C10_StepOk == TailWritten => writer' = writer

C10_Framing == [](C10_StateOk) /\ [][C10_StepOk]_vars

\* C11: in a streaming run an Err item is written as one error line and
\* bumps error_count by one, and the loop goes on: it ends only when the
\* channel is closed and empty, and every Ok item received in the loop, also
\* after an error, is written as an entry line before the tail.
C11_StateOk ==
    /\ pc \in {"loop", "tail", "done"} =>
          /\ error_count = Len(LinesOf(writer, "error"))
          /\ total_entries = Len(LinesOf(writer, "entry"))
    /\ pc = "loop" => Len(writer) = 1 + total_entries + error_count
    /\ pc = "done" => TailWritten /\ walker = "done" /\ chan = <<>>

C11_StepOk ==
    /\ error_count' # error_count =>
          /\ chan # <<>>
          /\ Head(chan).tag = "Err"
          /\ error_count' = error_count + 1
          /\ total_entries' = total_entries
          /\ writer' = Append(writer, ErrorLine(ToPlumbahError(Head(chan).error)))
          /\ chan' = Tail(chan)
          /\ pc = "loop" /\ pc' = "loop"
          /\ rx_alive'
    /\ (pc = "loop" /\ pc' = "loop" /\ Len(chan') < Len(chan)) =>
          IF Head(chan).tag = "Err"
          THEN error_count' = error_count + 1
          ELSE /\ writer' = Append(writer, EntryLine(Head(chan).entry))
               /\ total_entries' = total_entries + 1
               /\ error_count' = error_count
    /\ (pc = "loop" /\ pc' = "tail") => chan = <<>> /\ walker = "done"

C11_ErrorsDoNotHaltStream == [](C11_StateOk) /\ [][C11_StepOk]_vars

\* A stream closed by a tail holds an entry line after an error line.
C11_Witness ==
    /\ TailWritten
    /\ pc = "done"
    /\ \E i, j \in 1..Len(writer) :
          i < j /\ writer[i].line = "error" /\ writer[j].line = "entry"

\* ---------------------------------------------------------------- JSON shape
\* serde: a field marked skip_serializing_if = "Option::is_none" is left out
\* of the object when it is None; every other field is always written.
JsonKeys(r, skipped) == {k \in DOMAIN r : k \notin skipped \/ r[k] # None}

\* The fields of PlumbahObject that are skipped when None.
PlumbahSkipped == {"stream", "meta", "errors", "summary", "execution_time_ms"}

\* The keys of a serialised SnapshotEntry (entry_type is renamed "type"; no
\* field is skipped).
EntryJsonKeys(e) == {IF k = "entry_type" THEN "type" ELSE k : k \in DOMAIN e}

\* The top-level keys of a line as written: a SnapshotEntry is written as the
\* object itself, the envelope under "$plumbah".
TopKeys(l) ==
    UNION {IF k = "entry" THEN EntryJsonKeys(l.entry)
           ELSE IF k = "plumbah" THEN {"$plumbah"}
           ELSE {k} : k \in DOMAIN l \ {"line"}}

\* The keys of the envelope of a line: a PlumbahObject in the head and the
\* tail, a bare json! object in an error line.
EnvelopeKeys(l) ==
    IF l.line = "error" THEN DOMAIN l.plumbah ELSE JsonKeys(l.plumbah, PlumbahSkipped)

ErrorCodes == {"PATH_NOT_FOUND", "PERMISSION_DENIED", "IO_ERROR", "SYMLINK_LOOP"}

\* The lines between the head and the tail.
MiddleLines(w) ==
    {i \in 2..Len(w) : ~(i = Len(w) /\ w[i].line = "tail")}

\* C12: every middle line of a stream is either a bare entry object, with no
\* "$plumbah" key, or an object whose only key is "$plumbah" and whose
\* envelope holds nothing but an errors array of exactly one coded error.
C12_MiddleLineShapes ==
    \A i \in MiddleLines(writer) :
        LET l == writer[i]
        IN  \/ /\ "$plumbah" \notin TopKeys(l)
               /\ {"path", "type"} \subseteq TopKeys(l)
               /\ TopKeys(l) \subseteq {"path", "type", "size", "mode", "mtime", "checksum", "target"}
            \/ /\ TopKeys(l) = {"$plumbah"}
               /\ EnvelopeKeys(l) = {"errors"}
               /\ Len(l.plumbah.errors) = 1
               /\ l.plumbah.errors[1].code \in ErrorCodes

\* A closed stream holds a middle line of each shape.
C12_Witness ==
    /\ pc = "done"
    /\ \E i \in MiddleLines(writer) : "$plumbah" \notin TopKeys(writer[i])
    /\ \E i \in MiddleLines(writer) : TopKeys(writer[i]) = {"$plumbah"}

\* C13: the head line has stream = "head", the full metadata (tool, tool
\* version, timestamp, the four semantic flags), version, root and
\* checksum_algorithm, and neither entries nor a summary; the tail line has
\* stream = "tail", a summary and execution_time_ms, and neither metadata nor
\* any key besides the envelope.
C13_HeadTailShapes ==
    /\ writer # <<>> =>
          LET h == writer[1]
          IN  /\ TopKeys(h) = {"$plumbah", "version", "root", "checksum_algorithm"}
              /\ EnvelopeKeys(h) = {"version", "stream", "status", "meta"}
              /\ h.plumbah.stream = Some("head")
              /\ {"tool", "tool_version", "timestamp", "idempotent", "mutates",
                  "safe", "deterministic"} \subseteq DOMAIN h.plumbah.meta[1]
              /\ h.root = RootPath
              /\ h.checksum_algorithm = checksum_algorithm
    /\ TailWritten =>
          LET t == writer[Len(writer)]
          IN  /\ TopKeys(t) = {"$plumbah"}
              /\ EnvelopeKeys(t) = {"version", "stream", "status", "summary", "execution_time_ms"}
              /\ t.plumbah.stream = Some("tail")
              /\ DOMAIN t.plumbah.summary[1] = {"total", "processed", "errors"}

\* A stream with a middle line was closed by a tail.
C13_Witness ==
    /\ pc = "done"
    /\ TailWritten
    /\ Len(writer) >= 3

\* The status in the tail of a closed stream.
TailStatus == writer[Len(writer)].plumbah.status

\* C14 as stated: a streaming run exits with 0 when its tail says Ok and when
\* it says Partial, and ends as a hard error (exit code 1) only in the step
\* that produces the head.
C14_HardErrorOnlyAtHead_StateOk ==
    pc = "done" => exit_code = Some(0) /\ TailWritten /\ TailStatus \in {"Ok", "Partial"}

C14_HardErrorOnlyAtHead_StepOk ==
    (exit_code' = Some(1) /\ exit_code # Some(1)) => pc = "start"

C14_StateOk ==
    /\ mode = "stream" => exit_code \in {None, Some(0), Some(1)}
    /\ pc = "done" <=> (mode = "stream" /\ exit_code = Some(0))
    /\ pc = "failed" <=> (mode = "stream" /\ exit_code = Some(1))
    /\ pc = "done" =>
          /\ TailWritten
          /\ TailStatus \in {"Ok", "Partial"}
          /\ TailStatus = "Partial" <=> error_count > 0

C14_StepOk ==
    /\ (exit_code' = Some(0) /\ exit_code # Some(0)) =>
          /\ pc = "tail"
          /\ writer' = Append(writer, TailLine(total_entries, error_count))
    /\ (exit_code' = Some(1) /\ exit_code # Some(1)) =>
          /\ pc \in {"start", "loop", "tail"}
          /\ writer' = writer \/ (Len(writer') = Len(writer) + 1 /\ SubSeq(writer', 1, Len(writer)) = writer)
    /\ exit_code # None => (writer' = writer /\ exit_code' = exit_code)

SnapshotJsonKeys(snap) == {IF k = "plumbah" THEN "$plumbah" ELSE k : k \in DOMAIN snap}

\* C15: the exit code of a batch run follows the status of the envelope it
\* emitted, 0 for Ok, 2 for Partial, 1 for Error; a batch snapshot whose scan
\* had per-entry errors exits with 2.
C15_ExitCodeFromStatus ==
    (mode = "batch" /\ Returned) =>
        /\ exit_code = Some(StatusExitCode(Snap.plumbah.status))
        /\ errors # <<>> => exit_code = Some(2)

\* C16: a batch snapshot of a root that does not exist is an Error envelope
\* with a coded error and no snapshot data, and the exit code is 1.
C16_MissingRootIsError ==
    (mode = "batch" /\ pc = "done" /\ fs[Root] = Absent) =>
        /\ exit_code = Some(1)
        /\ Returned =>
              /\ Snap.plumbah.status = "Error"
              /\ Snap.plumbah.errors # None
              /\ SnapshotJsonKeys(Snap) \cap {"root", "count", "entries"} = {}

\* C17: a batch snapshot whose scan met n >= 1 per-entry errors carries an
\* errors array of n coded errors in its envelope.
C17_ErrorsInEnvelope ==
    (mode = "batch" /\ Returned /\ errors # <<>>) =>
        /\ Snap.plumbah.errors # None
        /\ Len(Snap.plumbah.errors[1]) = Len(errors)
        /\ \A i \in 1..Len(errors) : Snap.plumbah.errors[1][i] = ToPlumbahError(errors[i])

\* ---------------------------------------------------------------- diff claims
DiffReturned == diff_result # None

DiffRes == diff_result[1]

PathsOf(es) == {es[i].path : i \in 1..Len(es)}

\* C18: the identical flag of every DiffResult is true exactly when its
\* differences list is empty, for every pair of snapshots and option set.
C18_IdenticalIffNoDifferences ==
    DiffReturned => (DiffRes.identical <=> Len(DiffRes.differences) = 0)

\* Two snapshots that differ in their entries were found identical under
\* the options given, and two others were not.
C18_Witness ==
    /\ DiffReturned
    /\ DiffRes.identical
    /\ source # target
    /\ source # <<>>
    /\ target # <<>>

\* C19: added + removed + modified + unchanged is the number of distinct
\* paths of the two snapshots together.
C19_SummaryConsistent ==
    DiffReturned =>
        LET sm == DiffRes.summary
        IN  sm.added + sm.removed + sm.modified + sm.unchanged
                = Cardinality(PathsOf(source) \cup PathsOf(target))

\* A diff that counted a modified and an added path, the added one listed
\* twice in the target.
C19_Witness ==
    /\ DiffReturned
    /\ DiffRes.summary.modified = 1
    /\ DiffRes.summary.added = 1
    /\ Len(target) > Cardinality(PathsOf(target))

\* C20: the diff of a snapshot with itself is identical, has no
\* differences, counts every entry as unchanged (unchanged is the length of
\* the entries list) and nothing as added, removed or modified.
C20_Reflexive ==
    (DiffReturned /\ source = target) =>
        /\ DiffRes.identical
        /\ DiffRes.differences = <<>>
        /\ DiffRes.summary = [added |-> 0, removed |-> 0, modified |-> 0,
                               unchanged |-> Len(source)]

\* C21: swapping source and target swaps the added and removed counts and
\* leaves the unchanged and modified counts as they are, for every pair of
\* snapshots and every option set.
C21_Symmetry ==
    DiffReturned =>
        LET ab == DiffRes.summary
            ba == DiffEngineDiff(diff_options, target, source).summary
        IN  /\ ab.added = ba.removed
            /\ ab.removed = ba.added
            /\ ab.unchanged = ba.unchanged
            /\ ab.modified = ba.modified

\* A diff with one added, no removed and one modified path, whose reverse has
\* one removed path.
C21_Witness ==
    /\ DiffReturned
    /\ DiffRes.summary.added = 1
    /\ DiffRes.summary.removed = 0
    /\ DiffRes.summary.modified = 1
    /\ DiffEngineDiff(diff_options, target, source).summary.removed = 1

\* C22: the diff of an empty source against a target of k entries has
\* added = k and removed = modified = unchanged = 0.
C22_EmptySource ==
    (DiffReturned /\ source = <<>>) =>
        DiffRes.summary = [added |-> Len(target), removed |-> 0, modified |-> 0,
                           unchanged |-> 0]

\* The attributes compare_entries looks at under an option set.
Configured(opts) ==
    {"type"}
        \cup (IF opts.structure_only THEN {} ELSE {"content", "size", "target"})
        \cup (IF opts.structure_only \/ opts.ignore_mode THEN {} ELSE {"mode"})
        \cup (IF opts.structure_only \/ opts.ignore_time THEN {} ELSE {"mtime"})

AttributeOf(e, a) ==
    IF a = "type" THEN e.entry_type
    ELSE IF a = "content" THEN e.checksum
    ELSE IF a = "size" THEN e.size
    ELSE IF a = "target" THEN e.target
    ELSE IF a = "mode" THEN e.mode
    ELSE <<e.mtime>>

Differing(opts, s, t) == {a \in Configured(opts) : AttributeOf(s, a) # AttributeOf(t, a)}

DifferencesAt(p) ==
    {i \in 1..Len(DiffRes.differences) : DiffRes.differences[i].path = p}

\* The entry a snapshot holds for a path (the last one listed with it).
EntryAt(es, p) ==
    es[CHOOSE i \in 1..Len(es) : es[i].path = p /\ \A j \in (i + 1)..Len(es) : es[j].path # p]

\* C23: every path of the two snapshots has exactly one outcome.  A path of
\* the target alone has one difference, Added, without source and with the
\* target's entry; a path of the source alone has one difference, Removed,
\* with the source's entry and without target; a path of both has one
\* difference, Modified, with both entries, when a configured attribute
\* differs, and otherwise no difference and one unit of unchanged.
C23_OneOutcomePerPath ==
    DiffReturned =>
        LET S == PathsOf(source)
            T == PathsOf(target)
            unchanged == {p \in S \cap T : Differing(diff_options, EntryAt(source, p),
                                                    EntryAt(target, p)) = {}}
        IN  /\ \A i \in 1..Len(DiffRes.differences) : DiffRes.differences[i].path \in S \cup T
            /\ \A p \in T \ S :
                  /\ Cardinality(DifferencesAt(p)) = 1
                  /\ \A i \in DifferencesAt(p) :
                        /\ DiffRes.differences[i].change_type = "added"
                        /\ DiffRes.differences[i].source = None
                        /\ DiffRes.differences[i].target = Some(EntryAt(target, p))
            /\ \A p \in S \ T :
                  /\ Cardinality(DifferencesAt(p)) = 1
                  /\ \A i \in DifferencesAt(p) :
                        /\ DiffRes.differences[i].change_type = "removed"
                        /\ DiffRes.differences[i].source = Some(EntryAt(source, p))
                        /\ DiffRes.differences[i].target = None
            /\ \A p \in (S \cap T) \ unchanged :
                  /\ Cardinality(DifferencesAt(p)) = 1
                  /\ \A i \in DifferencesAt(p) :
                        /\ DiffRes.differences[i].change_type = "modified"
                        /\ DiffRes.differences[i].source = Some(EntryAt(source, p))
                        /\ DiffRes.differences[i].target = Some(EntryAt(target, p))
            /\ \A p \in unchanged : DifferencesAt(p) = {}
            /\ DiffRes.summary.unchanged = Cardinality(unchanged)

\* A diff with a modified path, and an unchanged path whose entries differ
\* only in an attribute the options switch off.
C23_Witness ==
    /\ DiffReturned
    /\ DiffRes.summary.modified = 1
    /\ DiffRes.summary.unchanged = 1
    /\ \E p \in PathsOf(source) \cap PathsOf(target) :
          /\ DifferencesAt(p) = {}
          /\ EntryAt(source, p) # EntryAt(target, p)

\* The sequences with the elements of s in another order.
Reorderings(s) ==
    {[i \in 1..Len(s) |-> s[f[i]]] :
        f \in {g \in [1..Len(s) -> 1..Len(s)] : \A i, j \in 1..Len(s) : g[i] = g[j] => i = j}}

\* C24: the differences of every diff are sorted ascending by path, and the
\* result, summary and differences, is the same for every order in which the
\* source and the target list their entries.
C24_OrderIndependent ==
    DiffReturned =>
        /\ IsSortedByPath(DiffRes.differences)
        /\ \A ps \in Reorderings(source), pt \in Reorderings(target) :
              LET r == DiffEngineDiff(diff_options, ps, pt)
              IN  /\ r.summary = DiffRes.summary
                  /\ r.differences = DiffRes.differences

SeqToSet(q) == {q[i] : i \in 1..Len(q)}

\* C25: for two entries at one path the changes of the diff are exactly the
\* configured attributes whose values differ (Type always; Content, Size and
\* Target unless structure_only; Mode unless ignore_mode or structure_only;
\* Mtime unless ignore_time or structure_only), each named once; when only
\* attributes that are switched off differ, the path is unchanged.
C25_ChangedAttributes ==
    DiffReturned =>
        /\ \A i \in 1..Len(DiffRes.differences) :
              LET d == DiffRes.differences[i]
              IN  d.change_type = "modified" =>
                    /\ SeqToSet(d.changes) = Differing(diff_options, d.source[1], d.target[1])
                    /\ Len(d.changes) = Cardinality(SeqToSet(d.changes))
                    /\ d.changes # <<>>
        /\ \A p \in PathsOf(source) \cap PathsOf(target) :
              Differing(diff_options, EntryAt(source, p), EntryAt(target, p)) = {}
                  => DifferencesAt(p) = {} /\ DiffRes.summary.unchanged >= 1

\* Two entries that differ in mode, mtime and size, compared under
\* ignore_time: the changes are mode and size.
C25_Witness ==
    /\ DiffReturned
    /\ diff_options = [ignore_time |-> TRUE, ignore_mode |-> FALSE, structure_only |-> FALSE]
    /\ Len(source) = 1
    /\ Len(target) = 1
    /\ source[1].mtime # target[1].mtime
    /\ Len(DiffRes.differences) = 1
    /\ SeqToSet(DiffRes.differences[1].changes) = {"mode", "size"}

\* ---------------------------------------------------------------- run claims
\* The top-level keys of the envelope run serialises: a DiffResult with its
\* envelope under "$plumbah", or a bare PlumbahObject.
OutputKeys(o) ==
    IF "plumbah" \in DOMAIN o THEN SnapshotJsonKeys(o) ELSE JsonKeys(o, PlumbahSkipped)

DiffRan == mode = "diff" /\ inputs # None /\ pc = "done" /\ ~plumbah_info

Reloaded(input) == input.path # "dir"

\* C26: the deterministic flag of a diff result is true only when both
\* inputs are reloaded snapshots (file or stdin), and false when either is a
\* live directory scan.
C26_DeterministicOnlyReloaded ==
    (DiffRan /\ diff_result # None) =>
        (DiffRes.plumbah.meta[1].deterministic
            => Reloaded(inputs[1].source) /\ Reloaded(inputs[1].target))

\* C27: when either input of galdi_diff cannot be acquired (the snapshot
\* does not parse, the file or the directory does not exist), no comparison
\* is made and the output is one envelope at top level with status Error and
\* a coded error, without identical, summary or differences; the exit code
\* is 1.
C27_LoadErrorEnvelope ==
    (DiffRan /\ (~inputs[1].source.good \/ ~inputs[1].target.good)) =>
        /\ diff_result = None
        /\ output # None
        /\ OutputKeys(output[1]) = {"version", "status", "meta", "errors"}
        /\ output[1].status = "Error"
        /\ Len(output[1].errors[1]) = 1
        /\ output[1].errors[1][1].code = "LOAD_ERROR"
        /\ exit_code = Some(1)

\* C28: under --plumbah-info galdi_snapshot and galdi_diff return the
\* envelope alone, with the four semantic flags, status Ok and exit code 0,
\* and take no step of a scan, a load or a diff: the walker is never
\* spawned, nothing is received, written or compared.
C28_StateOk ==
    /\ plumbah_info => pc \in {"start", "done"}
    /\ (plumbah_info /\ pc = "done") =>
          /\ output # None
          /\ OutputKeys(output[1]) = {"version", "status", "meta"}
          /\ output[1].status = "Ok"
          /\ {"idempotent", "mutates", "safe", "deterministic"} \subseteq DOMAIN output[1].meta[1]
          /\ exit_code = Some(0)
          /\ walker = "unspawned"
          /\ snapshot = None
          /\ diff_result = None
          /\ writer = <<>>

C28_StepOk ==
    plumbah_info =>
        /\ pc = "start"
        /\ pc' = "done"
        /\ UNCHANGED <<walkVars, chan, rx_alive, entries, errors, snapshot, writer, diff_result>>

C28_DryRun == [](C28_StateOk) /\ [][C28_StepOk]_vars

\* A dry run of galdi_snapshot on a root that holds objects has returned.
C28_Witness ==
    /\ plumbah_info
    /\ pc = "done"
    /\ mode = "batch"
    /\ Cardinality(DOMAIN fs) > 1
    /\ exit_code = Some(0)

\* ---------------------------------------------------------------- error claims
\* C29: every ScanError maps to a coded error whose code is one of
\* PATH_NOT_FOUND, PERMISSION_DENIED, IO_ERROR and SYMLINK_LOOP, whose path is
\* the error's path for the three kinds that have one and absent for the
\* generic I/O kind, whose recoverable flag is false and whose context is
\* absent.
C29_CodedErrors ==
    plumbah_error # None =>
        LET e == scan_error[1]
            p == plumbah_error[1]
        IN  /\ p.code \in ErrorCodes
            /\ e.kind \in {"PathNotFound", "PermissionDenied", "SymlinkLoop"}
                  => p.path = Some(e.path)
            /\ e.kind = "Io" => p.path = None
            /\ p.recoverable = FALSE
            /\ p.context = None

\* A generic I/O error was converted.
C29_Witness ==
    /\ plumbah_error # None
    /\ scan_error[1].kind = "Io"
    /\ plumbah_error[1].code = "IO_ERROR"

\* ---------------------------------------------------------------- checksum claims
\* The File entries among the items of a sequence of entries.
FileEntries(es) == {i \in 1..Len(es) : es[i].entry_type = "File"}

ChecksumPrefix(e) == e.checksum[1][1]

\* C30: within one scan the checksum algorithm is one configuration value:
\* every File entry, on the channel, collected and in the snapshot, has one
\* checksum, with the prefix of the configured algorithm, which is the
\* snapshot's checksum_algorithm; no path is hashed twice and the
\* configuration never changes during the scan.
C30_StateOk ==
    /\ \A i \in 1..Len(chan) :
          (chan[i].tag = "Ok" /\ chan[i].entry.entry_type = "File")
              => ChecksumPrefix(chan[i].entry) = checksum_algorithm
    /\ \A i \in FileEntries(entries) : ChecksumPrefix(entries[i]) = checksum_algorithm
    /\ \A i, j \in FileEntries(entries) : entries[i].path = entries[j].path => i = j
    /\ Returned =>
          /\ Snap.checksum_algorithm = checksum_algorithm
          /\ \A i \in FileEntries(Snap.entries) :
                ChecksumPrefix(Snap.entries[i]) = Snap.checksum_algorithm
          /\ \A i, j \in FileEntries(Snap.entries) :
                Snap.entries[i].path = Snap.entries[j].path => i = j

C30_StepOk == checksum_algorithm' = checksum_algorithm

C30_OneAlgorithm == [](C30_StateOk) /\ [][C30_StepOk]_vars

\* A snapshot taken with sha256 holds two File entries.
C30_Witness ==
    /\ Returned
    /\ Snap.checksum_algorithm = "sha256"
    /\ Cardinality(FileEntries(Snap.entries)) = 2

\* ---------------------------------------------------------------- algorithm claims
\* The names of the three supported algorithms.
SupportedNames == {XXH3_64Name, Sha256Name, Blake3Name}

\* The characters of a checksum prefix.
PrefixChars(prefix) ==
    CASE prefix = "xxh3_64" -> XXH3_64Name
      [] prefix = "sha256"  -> Sha256Name
      [] prefix = "blake3"  -> Blake3Name

\* C31: parsing a name succeeds exactly when the name is, in any mix of
\* cases, one of the three supported names, and then yields the algorithm
\* whose hasher formats its digests with that name as the prefix; any other
\* name is an error.
C31_ThreeSelectable ==
    parsed # None =>
        LET name == ToLowercase(algorithm_name[1])
            res  == parsed[1]
        IN  IF name \in SupportedNames
            THEN /\ res.ok
                 /\ PrefixChars(HasherPrefix(GetHasher(res.value))) = name
            ELSE ~res.ok

\* ---------------------------------------------------------------- snapshot envelope claims
\* The metas of the envelopes galdi_snapshot has emitted so far: the one
\* run returned, the one of the snapshot, the one of the head line.
SnapshotToolMetas ==
    (IF output # None THEN {output[1].meta[1]} ELSE {})
    \cup (IF snapshot # None THEN {snapshot[1].plumbah.meta[1]} ELSE {})
    \cup {writer[i].plumbah.meta[1] : i \in {j \in DOMAIN writer : writer[j].line = "head"}}

\* C32: every envelope the snapshot tool emits (batch snapshot, error
\* envelope, streaming head, dry run) declares deterministic = false.
C32_NeverDeterministic ==
    mode \in {"batch", "stream"} =>
        \A meta \in SnapshotToolMetas : ~meta.deterministic

\* ---------------------------------------------------------------- path claims
\* The entries the scanner has emitted so far: those in the channel, those
\* scan collected or returned, those written as lines.
EmittedEntries ==
    {chan[i].entry : i \in {j \in DOMAIN chan : chan[j].tag = "Ok"}}
    \cup {entries[i] : i \in DOMAIN entries}
    \cup (IF snapshot # None
          THEN {snapshot[1].entries[i] : i \in DOMAIN snapshot[1].entries}
          ELSE {})
    \cup {writer[i].entry : i \in {j \in DOMAIN writer : writer[j].line = "entry"}}

\* Paths of directory entries that do not lie under the scan root.
OutsidePaths ==
    {<<>>, <<RootDir>>, <<RootDir, 2>>, <<RootDir, 2, 1>>, <<1>>, <<1, 1>>, <<2>>}

\* C33: every entry the scanner emits has a path that is not absolute and
\* that, joined to the scan root, names an object of the scanned tree; a
\* directory entry whose path does not lie under the root gives an error
\* item, never an entry.
C33_RelativePaths ==
    /\ \A e \in EmittedEntries :
          /\ ~IsAbsolute(e.path)
          /\ \E p \in DOMAIN fs : RootPath \o e.path = RootPath \o p
    /\ \A path \in OutsidePaths : \A o \in Objects :
          CreateEntryAt(checksum_algorithm, RootPath, path, o).tag = "Err"

\* scan returned an entry for an object two levels below the root.
C33_Witness ==
    /\ snapshot # None
    /\ \E i \in DOMAIN snapshot[1].entries : Len(snapshot[1].entries[i].path) = 2

\* ---------------------------------------------------------------- exclusion claims
\* p matches a pattern or lies beneath a directory that matches one.
UnderExcluded(p) ==
    \E k \in 1..Len(p) : \E g \in exclude_patterns : g.valid /\ g.path = SubSeq(p, 1, k)

\* The paths the workers hold or have queued, and the paths of the entries
\* emitted.
TouchedPaths ==
    pool \cup {op.path : op \in active} \cup {e.path : e \in EmittedEntries}

VisitedObjects(f) == IF f[Root] = Absent THEN {Root} ELSE Reached(f)

\* C35: scan returns only after all production is complete (the walker
\* thread has ended, nothing is queued, held or in the channel), the
\* returned entries are exactly the successful items received, each once,
\* and every visited object has contributed exactly one item, an entry or
\* an error.
C35_SingleSynchronizationPoint ==
    Returned =>
        /\ walker = "done"
        /\ chan = <<>>
        /\ active = {}
        /\ Len(Snap.entries) = Len(entries)
        /\ EntryPaths(Snap.entries) = EntryPaths(entries)
        /\ Cardinality(EntryPaths(Snap.entries)) = Len(Snap.entries)
        /\ EntryPaths(Snap.entries) \subseteq VisitedObjects(fs)
        /\ Len(entries) + Len(errors) = Cardinality(VisitedObjects(fs))

\* ---------------------------------------------------------------- taxonomy claims
\* C36: a failure of the scan is reported under its own kind: a symlink
\* loop as SYMLINK_LOOP with the path, a permission failure as
\* PERMISSION_DENIED with the path, and only the other failures as IO_ERROR.
C36_OwnTaxonomyKind ==
    (failure # None /\ plumbah_error # None) =>
        LET f == failure[1]
            e == plumbah_error[1]
        IN  CASE f.kind = "Loop" ->
                    e.code = "SYMLINK_LOOP" /\ e.path = Some(f.path)
              [] f.kind = "PermissionDenied" ->
                    e.code = "PERMISSION_DENIED" /\ e.path = Some(f.path)
              [] OTHER -> e.code = "IO_ERROR"

\* ---------------------------------------------------------------- difference claims
\* The differences of the result with the given change type.
OfType(ty) == {i \in DOMAIN DiffRes.differences : DiffRes.differences[i].change_type = ty}

\* C37: the differences of every diff result are summary.added records of
\* type added, summary.removed of type removed and summary.modified of type
\* modified and nothing else: no other change type, no error field, and
\* their number is added + removed + modified; added and removed records
\* have no changes, modified records have at least one.
C37_DifferencesMatchSummary ==
    DiffReturned =>
        /\ Cardinality(OfType("added")) = DiffRes.summary.added
        /\ Cardinality(OfType("removed")) = DiffRes.summary.removed
        /\ Cardinality(OfType("modified")) = DiffRes.summary.modified
        /\ Len(DiffRes.differences)
              = DiffRes.summary.added + DiffRes.summary.removed + DiffRes.summary.modified
        /\ \A i \in DOMAIN DiffRes.differences :
              LET d == DiffRes.differences[i]
              IN  /\ d.change_type \in {"added", "removed", "modified"}
                  /\ d.error = None
                  /\ (d.change_type = "modified") <=> (d.changes # <<>>)

\* A diff returned a modified and a removed record, with options that
\* leave some attributes out.
C37_Witness ==
    /\ DiffReturned
    /\ diff_options.ignore_time
    /\ DiffRes.summary.removed = 1
    /\ DiffRes.summary.modified = 1
    /\ Len(DiffRes.differences) = 2

\* ---------------------------------------------------------------- status claims
\* C38: when both inputs of galdi_diff are acquired, the status of the diff
\* result is Ok and the exit code is 0, however many differences there are
\* and whatever the status (Ok, Partial, Error) of the input snapshots.
C38_InputStatusNotPropagated ==
    (DiffRan /\ SourceLoads(inputs[1]) /\ TargetLoads(inputs[1])) =>
        /\ diff_result # None
        /\ output = diff_result
        /\ DiffRes.plumbah.status = "Ok"
        /\ exit_code = Some(0)

\* A diff of a snapshot with status Error against a Partial one, with
\* differences, has returned.
C38_Witness ==
    /\ DiffRan
    /\ inputs[1].source.status = Some("Error")
    /\ inputs[1].target.status = Some("Partial")
    /\ diff_result # None
    /\ ~DiffRes.identical
    /\ exit_code = Some(0)

\* ---------------------------------------------------------------- duplicate path claims
\* Some path is listed more than once.
HasDuplicates(es) == \E i, j \in DOMAIN es : i # j /\ es[i].path = es[j].path

SnapshotEntryOf(alg, p, o) ==
    LET e == CreateEntry(alg, p, o).entry
    IN  Entry(e.path, e.entry_type, Some(o.content), Some("0644"), 1, e.checksum, e.target)

\* The entries of a complete scan of the tree f, in path order.
RECURSIVE EntriesOf(_, _, _)
EntriesOf(alg, f, paths) ==
    IF paths = <<>> THEN <<>>
    ELSE <<SnapshotEntryOf(alg, Head(paths), f[Head(paths)])>> \o EntriesOf(alg, f, Tail(paths))

\* The snapshot Scanner::scan returns for the tree f hashed with alg.
SnapshotOf(alg, f) ==
    ScanResult(alg, EntriesOf(alg, f, PathsInOrder(Healthy(f))),
               [i \in 1..ErrorItems(f) |-> IoError("walk")])

\* Mutant of LoadSnapshot: a live directory is scanned with args.checksum.
LoadSnapshot_usesArgsChecksum(input, f, checksum) ==
    IF input.path = "dir"
    THEN SnapshotOf(checksum, f)
    ELSE SnapshotOf(input.stored[1], f)

\* load_snapshot on an input that names the tree f: a live directory is
\* scanned with ChecksumAlgorithm::XXH3_64, whatever args.checksum is; a
\* file holds the snapshot that was taken of f with the algorithm stored.
LoadSnapshot(input, f, checksum) ==
    IF input.path = "dir"
    THEN SnapshotOf("xxh3_64", f)
    ELSE SnapshotOf(input.stored[1], f)

\* The inputs that name one tree: the live directory, or a file with a
\* snapshot taken of it with either algorithm.
TreeInputs ==
    {[path |-> "dir", good |-> TRUE, stored |-> None]}
    \cup {[path |-> "snap.json", good |-> TRUE, stored |-> Some(alg)] : alg \in ChecksumAlgorithms}

\* A run of galdi_diff on two inputs that name the same unchanged tree,
\* none of whose objects fails or panics.
InitSame ==
    /\ NoConversion
    /\ NoParse
    /\ fs \in {f \in Trees(MaxObjects) : IsTree(f) /\ \A p \in DOMAIN f : f[p].fault = "none"}
    /\ checksum_algorithm \in ChecksumAlgorithms
    /\ inputs \in {<<i>> : i \in [source : TreeInputs, target : TreeInputs]}
    /\ plumbah_info = FALSE
    /\ source = LoadSnapshot(inputs[1].source, fs, checksum_algorithm).entries
    /\ target = LoadSnapshot(inputs[1].target, fs, checksum_algorithm).entries
    /\ diff_options \in DiffOptionSets
    /\ diff_result = None
    /\ threads = 1
    /\ mode = "diff"
    /\ exclude_patterns = {}
    /\ InitRun

NextSame == DiffRun

SameTreeSpec == InitSame /\ [][NextSame]_vars

\* ---------------------------------------------------------------- frame claims
\* The algorithm an input's checksums are made with, as the claim states it.
AlgorithmOf(input) == IF input.path = "dir" THEN "xxh3_64" ELSE input.stored[1]

====
